---- MODULE Spec2Model ----
(***************************************************************************)
(* A state-machine model of the BART sampler of dbarts: the BARTFit        *)
(* orchestrator of src/src/dbarts/bartFit.cpp (construction, runSampler,   *)
(* setResponse, setOffset, setPredictor, updatePredictors), its cut-point  *)
(* machinery and its result buffers.                                       *)
(*                                                                         *)
(* Doubles are modelled as exact rationals [n, d] (d = 0 encodes the IEEE  *)
(* specials: n = 1 / -1 the infinities, n = 0 NaN).  Random draws are      *)
(* nondeterministic choices from small sets.  Trees are limited to depth   *)
(* one: a tree is a single leaf or a root rule with two leaves.            *)
(***************************************************************************)
EXTENDS Integers, Sequences, FiniteSets, TLC

(***************************************************************************)
(* Bounds of the model.                                                    *)
(***************************************************************************)
NumTrees == 2
MaxBurnIn == 1
MaxSamples == 2
MaxThin == 2

(***************************************************************************)
(* Machine integers.                                                       *)
(***************************************************************************)
\* uint32_t arithmetic is modelled at a reduced width (TLC integers are 32-bit
\* themselves): an unsigned int wraps at UINT_MODULUS, a size_t at its square
UINT_MODULUS == 256
\* static_cast<uint32_t>(-1): the "no cut points yet" marker
NO_CUTS_YET == UINT_MODULUS - 1

\* the null pointer: no array (every array of the model that is compared
\* with it has an element)
NULL == << >>
\* the callback has not been called
NotCalled == "not called"

(***************************************************************************)
(* Exact arithmetic on doubles.                                            *)
(***************************************************************************)
Abs(a) == IF a < 0 THEN -a ELSE a
Sgn(a) == IF a < 0 THEN -1 ELSE IF a > 0 THEN 1 ELSE 0

RECURSIVE GCD(_, _)
GCD(a, b) == IF b = 0 THEN a ELSE GCD(b, a % b)

Norm(n, d) ==
  IF d = 0 THEN [n |-> Sgn(n), d |-> 0]
  ELSE LET g == GCD(Abs(n), Abs(d))
           s == IF d < 0 THEN -1 ELSE 1
       IN  [n |-> (s * n) \div g, d |-> (s * d) \div g]

R(i) == [n |-> i, d |-> 1]
NaN == [n |-> 0, d |-> 0]
IsNaN(a) == a.d = 0 /\ a.n = 0
IsFinite(a) == a.d > 0

RAdd(a, b) ==
  IF a.d = 0 /\ b.d = 0 THEN (IF a.n = b.n THEN a ELSE NaN)
  ELSE Norm(a.n * b.d + b.n * a.d, a.d * b.d)
RNeg(a) == [n |-> -a.n, d |-> a.d]
RSub(a, b) == RAdd(a, RNeg(b))
RMul(a, b) == Norm(a.n * b.n, a.d * b.d)
RInv(a) == Norm(a.d, a.n)
RDiv(a, b) == RMul(a, RInv(b))
\* A double keeps MantissaBits significant bits: Fl rounds a result to the
\* nearest such value, ties to even (the exponent range is not bounded).
MantissaBits == 4
RECURSIVE Pow2(_)
Pow2(e) == IF e = 0 THEN 1 ELSE 2 * Pow2(e - 1)
RECURSIVE RoundToMantissa(_, _, _, _)
RoundToMantissa(n, d, scaledUp, scaledDown) ==
  IF n < Pow2(MantissaBits - 1) * d THEN RoundToMantissa(2 * n, d, 2 * scaledUp, scaledDown)
  ELSE IF n >= Pow2(MantissaBits) * d THEN RoundToMantissa(n, 2 * d, scaledUp, 2 * scaledDown)
  ELSE LET q == n \div d
           r == n % d
           up == 2 * r > d \/ (2 * r = d /\ q % 2 = 1)
       IN  Norm((IF up THEN q + 1 ELSE q) * scaledDown, scaledUp)
Fl(a) ==
  IF a.d = 0 \/ a.n = 0 THEN a
  ELSE LET m == RoundToMantissa(Abs(a.n), a.d, 1, 1) IN [n |-> Sgn(a.n) * m.n, d |-> m.d]
FlAdd(a, b) == Fl(RAdd(a, b))
FlMul(a, b) == Fl(RMul(a, b))
FlDiv(a, b) == Fl(RDiv(a, b))

\* a < b on doubles: false as soon as one side is NaN
RLess(a, b) ==
  IF IsNaN(a) \/ IsNaN(b) THEN FALSE
  ELSE IF a.d = 0 /\ b.d = 0 THEN a.n < b.n
  ELSE IF a.d = 0 THEN a.n < 0
  ELSE IF b.d = 0 THEN b.n > 0
  ELSE a.n * b.d < b.n * a.d
RLeq(a, b) == IF IsNaN(a) \/ IsNaN(b) THEN FALSE ELSE ~RLess(b, a)
RHalf == [n |-> 1, d |-> 2]

Min(a, b) == IF a < b THEN a ELSE b

\* element-wise helpers on vectors of doubles (sequences)
VecAdd(u, v) == [i \in DOMAIN u |-> RAdd(u[i], v[i])]
VecSub(u, v) == [i \in DOMAIN u |-> RSub(u[i], v[i])]
VecConst(len, c) == [i \in 1..len |-> c]
VecR(u) == [i \in DOMAIN u |-> R(u[i])]

\* 0-based indexing into a C array modelled as a sequence
At(a, idx) == a[idx + 1]

(***************************************************************************)
(* Inputs: the training and test data a fit is created with and the        *)
(* arguments later calls are given.  Matrices are flat arrays in column-   *)
(* major order, as the caller hands them over.                             *)
(***************************************************************************)
TrainingPredictors == { <<0, 2, 0, 2>>, <<0, 0, 0, 2>> }
MaxNumCutsInput == <<1, 0>>
\* replacements of the whole matrix (setPredictor) and of some columns
\* (updatePredictors: column i of newPredictor replaces column columns[i])
NewPredictors == { <<2, 0, 0, 2>>, <<0, 0, 0, 2>> }
UpdateInputs ==
  { [columns |-> <<0>>, newPredictor |-> <<0, 0>>],
    [columns |-> <<0>>, newPredictor |-> <<0, 4>>],
    [columns |-> <<1, 0>>, newPredictor |-> <<0, 2, 2, 0>>] }
\* the response a fit is created with
TrainingResponse(binary) == IF binary THEN <<0, 1>> ELSE <<0, 2>>
ContinuousResponses == { <<0, 2>>, <<0, 4>> }
BinaryResponses == { <<0, 1>>, <<1, 0>> }
Offsets == { NULL, <<0, 1>> }
\* four observations of two predictors (column-major) with up to four
\* distinct values in a column, and the maxNumCuts they come with
CutsPredictors ==
  { <<0, 2, 4, 6, 0, 0, 2, 2>>, <<0, 2, 4, 6, 6, 2, 4, 0>>, <<4, 4, 4, 4, 0, 2, 4, 6>>,
    <<0, 2, 4, 6, 4, 4, 4, 4>> }
CutsMaxNumCuts == { <<2, 1>>, <<3, 2>>, <<1, 2>> }
CutsUpdateInputs ==
  { [columns |-> <<0>>, newPredictor |-> <<0, 2, 4, 6>>],
    [columns |-> <<1>>, newPredictor |-> <<6, 4, 2, 0>>],
    [columns |-> <<1>>, newPredictor |-> <<0, 0, 2, 2>>] }
CutsResponse(binary) == IF binary THEN <<0, 1, 0, 1>> ELSE <<0, 2, 1, 3>>
\* responses and offsets for the rescaling: one or two observations, equal
\* or not
RescaleResponses == { <<0, 2>>, <<3, 1>>, <<2, 2>>, <<1>>, <<5>> }
RescaleOffsets == { <<0, 1>>, <<0, 2>>, <<1>> }
\* test predictors X_test (column-major) with their number of rows
TestPredictors ==
  << [X_test |-> NULL, numTestObservations |-> 0],
     [X_test |-> <<2, 0>>, numTestObservations |-> 1],
     [X_test |-> <<0, 2, 2, 0>>, numTestObservations |-> 2],
     [X_test |-> <<0, 2, 2, 0>>, numTestObservations |-> 0] >>
\* the test predictors a fit is created with: none, or a matrix with rows
TrainingTestPredictors ==
  { i \in DOMAIN TestPredictors :
      TestPredictors[i].X_test = NULL \/ TestPredictors[i].numTestObservations > 1 }
TestOffsets == { NULL, <<1, 0>> }
SigmaEstimate == R(1)
\* the scale the residual-variance prior is constructed with
InitialPriorScale == R(1)

\* the values a leaf-parameter draw, a sigma draw and a truncated-normal
\* draw (as distance from the truncation bound) can take in the model
LeafDraws == { R(0), R(1) }
SigmaDraws == { R(2) }
TruncatedDraws == { 2 }

\* a node's residuals, three observations of a top node or the first three
\* of a node below the top, the weights if any, and the number of
\* observations its left child gets
MeanResponses ==
  { <<0, 2, 3>>, <<1, 1, 1>>, <<0, 1, 3>>, <<3, 0, 0>>, <<2, 2, 0, 1>>, <<0, 2, 3, 3>> }
MeanWeights == << NULL, <<1, 1, 2, 1>>, <<2, 1, 1, 2>> >>
MeanSplits == { 1, 2 }

\* the control settings a fit is created with
Controls ==
  { [responseIsBinary |-> FALSE, useQuantiles |-> TRUE, keepTrainingFits |-> FALSE,
     treeThinningRate |-> MaxThin, callback |-> TRUE],
    [responseIsBinary |-> FALSE, useQuantiles |-> FALSE, keepTrainingFits |-> FALSE,
     treeThinningRate |-> 1, callback |-> FALSE],
    [responseIsBinary |-> TRUE, useQuantiles |-> TRUE, keepTrainingFits |-> FALSE,
     treeThinningRate |-> 1, callback |-> TRUE],
    [responseIsBinary |-> TRUE, useQuantiles |-> FALSE, keepTrainingFits |-> FALSE,
     treeThinningRate |-> MaxThin, callback |-> TRUE] }

\* the (numBurnIn, numSamples) arguments runSampler is called with
RunArguments == { <<MaxBurnIn, MaxSamples>>, <<MaxBurnIn, 0>>, <<0, 1>> }

(***************************************************************************)
(* Cut points (bartFit.cpp, setCutPoints and the two functions it calls).  *)
(***************************************************************************)
RECURSIVE SortedElements(_)
SortedElements(S) ==
  IF S = {} THEN <<>>
  ELSE LET m == CHOOSE e \in S : \A f \in S : e <= f
       IN  <<m>> \o SortedElements(S \ {m})

\* column col (0-based) of a column-major matrix with numRows rows
ColumnOf(M, numRows, col) == [row \in 1..numRows |-> At(M, (row - 1) + col * numRows)]

\* the number of cut points the values x of a column induce
InducedNumCuts(x, maxNumCuts) ==
  LET numUniqueElements == Cardinality({ x[i] : i \in DOMAIN x })
  IN  IF numUniqueElements <= (maxNumCuts + 1) % UINT_MODULUS
      THEN numUniqueElements - 1 ELSE maxNumCuts

\* Result: [error, warning, numCutsPerVariable, cutPoints].  error is the
\* ext_throwError exit, taken before anything is written.
\* maxNumCuts cut points whatever the number of distinct values
C23_Mutant_setCutPointsFromQuantiles(x, maxNumCuts, numCutsPerVariable, cutPoints) ==
  [error |-> FALSE, warning |-> FALSE, numCutsPerVariable |-> maxNumCuts,
   cutPoints |-> [i \in 1..maxNumCuts |-> RMul(RHalf, R(x[1] + x[Len(x)]))]]

setCutPointsFromQuantiles(x, maxNumCuts, numCutsPerVariable, cutPoints) ==
  LET uniqueElements == { x[i] : i \in DOMAIN x }
      numUniqueElements == Cardinality(uniqueElements)
      small == numUniqueElements <= (maxNumCuts + 1) % UINT_MODULUS
      numCuts == InducedNumCuts(x, maxNumCuts)
      step == IF small THEN 1 ELSE numCuts \div numUniqueElements
      offset == IF small THEN 0 ELSE step \div 2
      hadCuts == numCutsPerVariable # NO_CUTS_YET
      newNumCuts == IF hadCuts THEN numCutsPerVariable ELSE numCuts % UINT_MODULUS
      sortedElements == SortedElements(uniqueElements)
      \* numUniqueElements - 2 is a size_t: it wraps for a single value
      last == IF numUniqueElements >= 2 THEN numUniqueElements - 2
              ELSE UINT_MODULUS * UINT_MODULUS + numUniqueElements - 2
      cut(i) == LET index == Min(i * step + offset, last)
                IN  IF index + 1 < numUniqueElements
                    THEN RMul(RHalf, R(At(sortedElements, index) + At(sortedElements, index + 1)))
                    ELSE NaN
  IN  IF hadCuts /\ numCuts < numCutsPerVariable
      THEN [error |-> TRUE, warning |-> FALSE,
            numCutsPerVariable |-> numCutsPerVariable, cutPoints |-> cutPoints]
      ELSE [error |-> FALSE, warning |-> hadCuts /\ numCuts > numCutsPerVariable,
            numCutsPerVariable |-> newNumCuts,
            cutPoints |-> [i \in 1..newNumCuts |-> cut(i - 1)]]

VecMin(x) == CHOOSE m \in { x[i] : i \in DOMAIN x } : \A i \in DOMAIN x : m <= x[i]
VecMax(x) == CHOOSE m \in { x[i] : i \in DOMAIN x } : \A i \in DOMAIN x : m >= x[i]

setCutPointsUniformly(x, maxNumCuts, numCutsPerVariable, cutPoints) ==
  LET xMin == VecMin(x)
      xMax == VecMax(x)
      newNumCuts == IF numCutsPerVariable = NO_CUTS_YET THEN maxNumCuts ELSE numCutsPerVariable
      xIncrement == RDiv(R(xMax - xMin), R((newNumCuts + 1) % UINT_MODULUS))
  IN  [error |-> FALSE, warning |-> FALSE,
       numCutsPerVariable |-> newNumCuts,
       cutPoints |-> [i \in 1..newNumCuts |-> RAdd(R(xMin), RMul(R(i), xIncrement))]]

\* The loop of setCutPoints over columns[i..], reading the predictor matrix
\* dataX that data.X points to.  st is [error, warning, numCutsPerVariable,
\* cutPoints], the last two indexed by column + 1.
RECURSIVE setCutPointsFrom(_, _, _, _, _, _, _)
setCutPointsFrom(i, columns, useQuantiles, dataX, numObservations, maxNumCutsArr, st) ==
  IF i > Len(columns) \/ st.error THEN st
  ELSE LET col == columns[i]
           x == ColumnOf(dataX, numObservations, col)
           r == IF useQuantiles
                THEN setCutPointsFromQuantiles(x, At(maxNumCutsArr, col),
                                               At(st.numCutsPerVariable, col), At(st.cutPoints, col))
                ELSE setCutPointsUniformly(x, At(maxNumCutsArr, col),
                                           At(st.numCutsPerVariable, col), At(st.cutPoints, col))
           next == [error |-> r.error,
                    warning |-> st.warning \/ r.warning,
                    numCutsPerVariable |-> [st.numCutsPerVariable EXCEPT ![col + 1] = r.numCutsPerVariable],
                    cutPoints |-> [st.cutPoints EXCEPT ![col + 1] = r.cutPoints]]
       IN  setCutPointsFrom(i + 1, columns, useQuantiles, dataX, numObservations, maxNumCutsArr, next)

setCutPoints(columns, useQuantiles, dataX, numObservations, maxNumCutsArr, numCuts, cuts) ==
  setCutPointsFrom(1, columns, useQuantiles, dataX, numObservations, maxNumCutsArr,
                   [error |-> FALSE, warning |-> FALSE,
                    numCutsPerVariable |-> numCuts, cutPoints |-> cuts])

AllColumns(numPredictors) == [i \in 1..numPredictors |-> i - 1]

\* scratch.Xt from data.X: Xt[row * numPredictors + col] = X[row + col * numObservations]
Transpose(M, numRows, numCols) ==
  [idx \in 1..(numRows * numCols) |->
     LET row == (idx - 1) \div numCols
         col == (idx - 1) % numCols
     IN  At(M, row + col * numRows)]

(***************************************************************************)
(* The state of one BARTFit.  control and maxNumCuts are set at creation   *)
(* and never written again.  The variables from pc on are the locals of a  *)
(* runSampler call in progress; lastOp, returned, warned, iterationLog,    *)
(* numIterations, sampleIteration, numCallbacks and callbackArgs record what the last     *)
(* operation was, what it returned and what it did.                        *)
(***************************************************************************)
VARIABLES control, maxNumCuts,
          y, offset, X, X_test, testOffset, numTestObservations,
          yRescaled, Xt, Xt_test, treeY, numCutsPerVariable, cutPoints, dataScale,
          trees, treeFits, totalFits, totalTestFits,
          sigma, scale,
          pc, k, treeNum, numBurnIn, numSamples, totalNumIterations,
          isThinningIteration, majorIterationNum, results,
          lastOp, returned, warned, iterationLog, numIterations,
          sampleIteration, numCallbacks, callbackArgs,
          activeFits, externalPtrAddr, createCall, file,
          leaf, storedScratch, memory, family,
  fitMutex, finalizer, deleteCount, reach, finalizePc, lastPointer

controlVars == <<control, maxNumCuts>>
dataVars == <<y, offset, X, X_test, testOffset, numTestObservations>>
scratchVars == <<yRescaled, Xt, Xt_test, treeY, numCutsPerVariable, cutPoints, dataScale>>
stateVars == <<trees, treeFits, totalFits, totalTestFits>>
modelVars == <<sigma, scale>>
runVars == <<pc, k, treeNum, numBurnIn, numSamples, totalNumIterations,
             isThinningIteration, majorIterationNum, results,
             iterationLog, numIterations, sampleIteration, numCallbacks,
             callbackArgs>>
\* the R interface: the registry of external pointers, the BARTFit each
\* external pointer addresses, and the arguments of the last dbarts_create;
\* the file saveToFile writes to
\* the threads of a THREAD_SAFE_UNLOAD build: the mutex that guards
\* activeFits, each external pointer's finalizer (where it stands and the
\* address it read), how often each fit was deleted by a step of these
\* threads, whether R can still
\* reach each external pointer, where dbarts_finalize stands, and the
\* pointer the last entry point was called with
unloadVars == <<fitMutex, finalizer, deleteCount, reach, finalizePc, lastPointer>>
interfaceVars == <<activeFits, externalPtrAddr, createCall, file, unloadVars>>
\* one leaf's scratch, the copy storeScratch made of it, and the buffers of
\* the free store; a parent node with its two children and their mean-normal
\* scratches
leafVars == <<leaf, storedScratch, memory, family>>
vars == <<controlVars, dataVars, scratchVars, stateVars, modelVars, runVars,
          lastOp, returned, warned, interfaceVars, leafVars>>

numObservations == Len(y)
numPredictors == Len(maxNumCuts)

(***************************************************************************)
(* Trees.  A tree is [hasRule, variableIndex, splitIndex, mu, leafOf]:     *)
(* without a rule the root is the only leaf (leaf 1); with a rule          *)
(* (variableIndex, splitIndex) the root has the left leaf 1 and the right  *)
(* leaf 2.  mu[l] is the parameter in leaf l's scratch, leafOf[i] the leaf *)
(* whose observation indices hold training row i (1-based).                *)
(***************************************************************************)
SingleLeaf(mu1, n) ==
  [hasRule |-> FALSE, variableIndex |-> 0, splitIndex |-> 0,
   mu |-> <<mu1, R(0)>>, leafOf |-> [i \in 1..n |-> 1]]

\* Rule::goesRight: an observation goes left iff x <= cutPoints[variableIndex][splitIndex]
goesRight(tree, cuts, xRow) ==
  RLess(At(At(cuts, tree.variableIndex), tree.splitIndex), R(At(xRow, tree.variableIndex)))

RowOf(Mt, numCols, row) == [c \in 1..numCols |-> At(Mt, (row - 1) * numCols + (c - 1))]

\* the leaf a row of predictors is routed to by the tree's rule
findBottomNode(tree, cuts, xRow) ==
  IF ~tree.hasRule THEN 1 ELSE IF goesRight(tree, cuts, xRow) THEN 2 ELSE 1

\* memberships recomputed from the transposed predictors and the cut
\* points; the leaves keep their parameters
updateWithNewCovariates(tree, Mt, cuts, n, p) ==
  [tree EXCEPT !.leafOf = [i \in 1..n |-> findBottomNode(tree, cuts, RowOf(Mt, p, i))]]

\* no leaf is left without observations
isValid(tree) ==
  tree.hasRule => \A l \in {1, 2} : \E i \in DOMAIN tree.leafOf : tree.leafOf[i] = l

\* training fits: each leaf's parameter broadcast over its observations
getFits(tree) == [i \in DOMAIN tree.leafOf |-> tree.mu[tree.leafOf[i]]]

\* test fits: each test row routed through the rule to a leaf's parameter
getTestFits(tree, Mt_test, cuts, m, p) ==
  [i \in 1..m |-> tree.mu[findBottomNode(tree, cuts, RowOf(Mt_test, p, i))]]

\* every observation mapped to the first leaf
C25_Mutant_createObservationToNodeIndexMap(tree, Mt, cuts, numObs, p) ==
  IF numObs = 0 THEN NULL ELSE [i \in 1..numObs |-> 0]

\* createObservationToNodeIndexMap: the enumerationIndex of the leaf each
\* row of Mt is routed to, NULL for no rows
createObservationToNodeIndexMap(tree, Mt, cuts, numObs, p) ==
  IF numObs = 0 THEN NULL
  ELSE [i \in 1..numObs |-> findBottomNode(tree, cuts, RowOf(Mt, p, i)) - 1]

\* Tree::getCurrentFits with the leaves' draws in tree.mu: the training
\* fits, and when testFits is not NULL the map built and the test fits
\* written
getCurrentFits(tree, Mt_test, cuts, m, p, testFitsRequested) ==
  LET nodePosteriorPredictions == tree.mu
      observationNodeMap ==
        IF testFitsRequested THEN createObservationToNodeIndexMap(tree, Mt_test, cuts, m, p)
        ELSE NULL
  IN  [trainingFits |-> getFits(tree),
       mapBuilt |-> testFitsRequested /\ m > 0,
       testFits |-> IF testFitsRequested
                    THEN [i \in 1..m |-> At(nodePosteriorPredictions, observationNodeMap[i])]
                    ELSE NULL]

\* Tree::countVariableUses summed over the trees
countVariableUses(ts, p) ==
  [v \in 1..p |-> Cardinality({ t \in DOMAIN ts : ts[t].hasRule /\ ts[t].variableIndex = v - 1 })]

\* The trees a Metropolis step followed by the leaf draws can leave in
\* place of tree: the structure kept, a leaf split by a rule that leaves no
\* child empty (BIRTH), a rule dropped (DEATH) or replaced (CHANGE); every
\* leaf parameter drawn afresh.
Rules(numCuts, p) ==
  UNION { { [variableIndex |-> v, splitIndex |-> c] : c \in 0..(At(numCuts, v) - 1) } :
          v \in { w \in 0..(p - 1) : At(numCuts, w) # NO_CUTS_YET } }

WithRule(r, Mt, cuts, n, p) ==
  updateWithNewCovariates([hasRule |-> TRUE, variableIndex |-> r.variableIndex,
                           splitIndex |-> r.splitIndex, mu |-> <<R(0), R(0)>>,
                           leafOf |-> [i \in 1..n |-> 1]], Mt, cuts, n, p)

Structures(tree, Mt, cuts, numCuts, n, p) ==
  { tree, SingleLeaf(R(0), n) } \cup
  { t \in { WithRule(r, Mt, cuts, n, p) : r \in Rules(numCuts, p) } : isValid(t) }

drawFromPosteriors(tree, Mt, cuts, numCuts, n, p) ==
  { [s EXCEPT !.mu = IF s.hasRule THEN <<m1, m2>> ELSE <<m1, R(0)>>] :
      s \in Structures(tree, Mt, cuts, numCuts, n, p), m1 \in LeafDraws, m2 \in LeafDraws }

(***************************************************************************)
(* Response scaling and latents.                                           *)
(***************************************************************************)
RVecMin(v) == CHOOSE m \in { v[i] : i \in DOMAIN v } : \A i \in DOMAIN v : RLeq(m, v[i])
RVecMax(v) == CHOOSE m \in { v[i] : i \in DOMAIN v } : \A i \in DOMAIN v : RLeq(v[i], m)

\* [yRescaled, dataScale] from data.y and data.offset
rescaleResponse(dataY, dataOffset) ==
  LET shifted == IF dataOffset # NULL THEN VecSub(VecR(dataY), VecR(dataOffset)) ELSE VecR(dataY)
      min == RVecMin(shifted)
      max == RVecMax(shifted)
      range == RSub(max, min)
  IN  [yRescaled |-> [i \in DOMAIN shifted |->
                        RSub(RMul(RSub(shifted[i], min), RDiv(R(1), range)), RHalf)],
       dataScale |-> [min |-> min, max |-> max, range |-> range]]

\* z = 2 * y - 1 - offset, with the scale triple fixed at (-1, 1, 2)
initializeLatents(dataY, dataOffset) ==
  [yRescaled |-> [i \in DOMAIN dataY |->
                    RAdd(RAdd(R(-1), IF dataOffset # NULL THEN RNeg(R(dataOffset[i])) ELSE R(0)),
                         RMul(R(2), R(dataY[i])))],
   dataScale |-> [min |-> R(-1), max |-> R(1), range |-> R(2)]]

\* the latents drawn on the wrong side of the bound
C11_Mutant_sampleProbitLatentVariables(dataY, dataOffset) ==
  { [i \in DOMAIN dataY |->
       LET off == IF dataOffset # NULL THEN dataOffset[i] ELSE 0
       IN  IF dataY[i] > 0 THEN R(-off - d[i]) ELSE R(-off + d[i])] :
      d \in [DOMAIN dataY -> TruncatedDraws] }

\* The latent vectors sampleProbitLatentVariables can draw: z[i] is at or
\* above the bound -offset[i] when y[i] > 0 and at or below it otherwise.
sampleProbitLatentVariables(dataY, dataOffset) ==
  { [i \in DOMAIN dataY |->
       LET off == IF dataOffset # NULL THEN dataOffset[i] ELSE 0
       IN  IF dataY[i] > 0 THEN R(-off + d[i]) ELSE R(-off - d[i])] :
      d \in [DOMAIN dataY -> TruncatedDraws] }

(***************************************************************************)
(* Construction: BARTFit::BARTFit (allocateMemory, setPrior,               *)
(* setInitialCutPoints, setInitialFit).                                    *)
(***************************************************************************)
InitialScaling(c, dataY, dataOffset) ==
  IF c.responseIsBinary THEN initializeLatents(dataY, dataOffset)
  ELSE rescaleResponse(dataY, dataOffset)

\* setPrior: sigma is 1 for a binary response
InitialSigma(c, range) ==
  IF c.responseIsBinary THEN R(1) ELSE RDiv(SigmaEstimate, range)

\* Results(numObservations, numPredictors, numTestObservations, numSamples):
\* buffers of numCols columns; written[j] records that column j has been
\* stored into, outOfBounds a store past the last column
NumResultColumns(ns) == IF ns = 0 THEN 1 ELSE ns

NewResults(numCols) ==
  [numSamples |-> numCols,
   sigmaSamples |-> [j \in 1..numCols |-> R(0)],
   trainingSamples |-> [j \in 1..numCols |-> <<>>],
   testSamples |-> [j \in 1..numCols |-> <<>>],
   variableCountSamples |-> [j \in 1..numCols |-> <<>>],
   written |-> [j \in 1..numCols |-> FALSE],
   outOfBounds |-> FALSE]

\* no Results object: none allocated, or the one allocated deleted
NoResults == NewResults(0)

\* no runSampler call in progress, none just returned
Idle ==
  /\ pc = "idle" /\ k = 0 /\ treeNum = 0 /\ numBurnIn = 0 /\ numSamples = 0
  /\ totalNumIterations = 0 /\ isThinningIteration = FALSE /\ majorIterationNum = 0
  /\ results = NoResults /\ iterationLog = <<>> /\ numIterations = 0
  /\ sampleIteration = <<>> /\ numCallbacks = 0 /\ callbackArgs = NotCalled

\* The free store: cells[a] is the buffer at address a, live or freed, with
\* its contents (one value stands for the whole array); address 0 is NULL,
\* MODEL_XT the model-wide Xt, CALLER_Y the residual vector of the caller.
\* misuse records a delete of a buffer that is not live or not the node's.
MaxBuffers == 10
MODEL_XT == 1
CALLER_Y == 2
BufferValues == {0, 1}
InitialMemory ==
  [cells |-> [a \in 1..MaxBuffers |-> [live |-> a \in {MODEL_XT, CALLER_Y}, data |-> 0]],
   misuse |-> "none", other |-> 0]
\* no leaf scratch yet
NoLeaf == [kind |-> "none"]
\* the external pointers R can hold at one time
MaxFits == 2
\* a finalizer that is not running
NotFinalizing == [pc |-> "none", fit |-> 0]
\* no node split yet
NoFamily == [split |-> 0]

\* the file of a saveToFile call: whether fileName exists, the sections it
\* holds or held when it was unlinked (version, control, model, data,
\* state), and the prior scale of the model section
NoFile == [exists |-> FALSE, sections |-> 0, scale |-> R(0), unlinked |-> FALSE]

\* BARTFit::BARTFit: allocateMemory, setPrior, setInitialCutPoints, setInitialFit
ConstructWithTest(c, dataY, dataOffset, dataX, maxCuts, dataX_test, m) ==
  LET n == Len(dataY)
      p == Len(maxCuts)
      sc == InitialScaling(c, dataY, dataOffset)
      cp == setCutPoints(AllColumns(p), c.useQuantiles, dataX, n, maxCuts,
                         [j \in 1..p |-> NO_CUTS_YET], [j \in 1..p |-> NULL])
      sig == InitialSigma(c, sc.dataScale.range)
  IN  /\ control = c /\ maxNumCuts = maxCuts
      /\ y = dataY /\ offset = dataOffset /\ X = dataX
      /\ X_test = dataX_test /\ testOffset = NULL /\ numTestObservations = m
      /\ Xt_test = (IF m > 0 THEN Transpose(dataX_test, m, p) ELSE NULL)
      /\ yRescaled = sc.yRescaled /\ dataScale = sc.dataScale
      /\ Xt = Transpose(dataX, n, p)
      /\ treeY = sc.yRescaled
      /\ numCutsPerVariable = cp.numCutsPerVariable /\ cutPoints = cp.cutPoints
      /\ sigma = sig
      /\ scale = RMul(RMul(sig, sig), InitialPriorScale)
      /\ trees = [t \in 1..NumTrees |-> SingleLeaf(R(0), n)]
      /\ treeFits = [t \in 1..NumTrees |-> VecConst(n, R(0))]
      /\ totalFits = VecConst(n, R(0))
      /\ totalTestFits = (IF m > 0 THEN VecConst(m, R(0)) ELSE NULL)
      /\ Idle
      /\ lastOp = "create" /\ returned = "void" /\ warned = FALSE
      /\ activeFits = {} /\ externalPtrAddr = << >> /\ createCall = NotCalled
      /\ file = NoFile
      /\ fitMutex = "unlocked" /\ finalizePc = "idle" /\ lastPointer = 0
      /\ finalizer = [q \in 1..MaxFits |-> NotFinalizing]
      /\ deleteCount = [q \in 1..MaxFits |-> 0]
      /\ reach = [q \in 1..MaxFits |-> "none"]
      /\ leaf = NoLeaf /\ storedScratch = NoLeaf /\ memory = InitialMemory
      /\ family = NoFamily

\* a fit created without test observations
Construct(c, dataY, dataOffset, dataX, maxCuts) ==
  ConstructWithTest(c, dataY, dataOffset, dataX, maxCuts, NULL, 0)

Init ==
  \E c \in Controls, dataX \in TrainingPredictors :
    Construct(c, TrainingResponse(c.responseIsBinary), NULL, dataX, MaxNumCutsInput)

(***************************************************************************)
(* runSampler.                                                             *)
(***************************************************************************)
SIZE_MODULUS == UINT_MODULUS * UINT_MODULUS

\* the thinning rate left out of the iteration count
C2_Mutant_TotalNumIterations(nb, ns, thin) == nb + ns

\* size_t totalNumIterations = (numBurnIn + numSamples) * control.treeThinningRate
TotalNumIterations(nb, ns, thin) == ((nb + ns) * thin) % SIZE_MODULUS

\* every iteration taken for a non-thinning one
C3_Mutant_IsThinningIteration(kk, thin) == FALSE

\* isThinningIteration = ((k + 1) % control.treeThinningRate != 0), k a uint32_t
IsThinningIteration(kk, thin) == (((kk + 1) % UINT_MODULUS) % thin) # 0

MajorIterationNum(kk, thin) == (kk \div thin) % UINT_MODULUS

IsBurningIn(major, nb) == major < nb

\* the burn-in iterations not subtracted from the column index
C4_Mutant_SimNum(major, nb) == major

\* the result column a non-thinning iteration stores into
SimNum(major, nb) == IF ~IsBurningIn(major, nb) THEN major - nb ELSE 0

\* treeY = y - (totalFits - oldTreeFits)
\* the tree's own old fits not added back
C22_Mutant_calculateResidualsFromOtherTreeFits(yv, total, oldTreeFits) == VecSub(yv, total)

calculateResidualsFromOtherTreeFits(yv, total, oldTreeFits) ==
  VecAdd(VecSub(yv, total), oldTreeFits)

\* totalFits += currFits, the old fits left in
C1_Mutant_updateTotalFits(oldTreeFits, currTreeFits, total) == VecAdd(total, currTreeFits)

\* totalFits += currFits - oldTreeFits
updateTotalFits(oldTreeFits, currTreeFits, total) ==
  VecAdd(VecSub(total, oldTreeFits), currTreeFits)

\* sigma stored on the scale of the response whatever the response is
C10_Mutant_StoredSigma(binary, sig, range) == RMul(sig, range)

\* the value storeSamples writes to results.sigmaSamples[simNum]
StoredSigma(binary, sig, range) == IF binary THEN R(1) ELSE RMul(sig, range)

StoredTraining(binary, trainingSample, dataOffset, ds) ==
  LET base == IF binary THEN trainingSample
              ELSE VecAdd(VecConst(Len(trainingSample), RAdd(RMul(ds.range, RHalf), ds.min)),
                          [i \in DOMAIN trainingSample |-> RMul(ds.range, trainingSample[i])])
  IN  IF dataOffset # NULL THEN VecAdd(base, VecR(dataOffset)) ELSE base

\* storeSamples: column simNum (0-based) of every kept buffer is written; a
\* column past the buffers' end is recorded in outOfBounds
storeSamples(res, c, trainingSample, testSample, dataOffset, dataTestOffset, m, ds, sig, variableCounts, simNum) ==
  IF simNum >= res.numSamples THEN [res EXCEPT !.outOfBounds = TRUE]
  ELSE [res EXCEPT
          !.trainingSamples[simNum + 1] =
              IF c.keepTrainingFits
              THEN StoredTraining(c.responseIsBinary, trainingSample, dataOffset, ds)
              ELSE @,
          !.testSamples[simNum + 1] =
              IF m > 0
              THEN StoredTraining(c.responseIsBinary, testSample, dataTestOffset, ds)
              ELSE @,
          !.sigmaSamples[simNum + 1] = StoredSigma(c.responseIsBinary, sig, ds.range),
          !.variableCountSamples[simNum + 1] = variableCounts,
          !.written[simNum + 1] = TRUE]

\* the callback always handed the first column
C5_Mutant_CallbackArguments(res, isBurningIn, simNum, n, m) ==
  [isBurningIn |-> isBurningIn, trainingSamples |-> 0, testSamples |-> 0,
   sigma |-> res.sigmaSamples[1]]

\* what the callback is handed: isBurningIn, the offsets of the training and
\* test columns in the result buffers, and results.sigmaSamples[simNum]
CallbackArguments(res, isBurningIn, simNum, n, m) ==
  [isBurningIn |-> isBurningIn,
   trainingSamples |-> simNum * n,
   testSamples |-> simNum * m,
   sigma |-> IF simNum < res.numSamples THEN res.sigmaSamples[simNum + 1] ELSE NaN]

\* the tree's test fits put in place of the total
C13_Mutant_addTestFits(total, currTestFits) == currTestFits

\* totalTestFits += currTestFits
addTestFits(total, currTestFits) == VecAdd(total, currTestFits)

\* runSampler up to its loop; pointer is the external pointer dbarts_run
\* was called with, 0 for a call that does not come from dbarts_run
RunSamplerFrom(nb, ns, pointer) ==
  /\ pc = "idle"
  /\ lastPointer' = pointer
  /\ numBurnIn' = nb /\ numSamples' = ns
  /\ results' = NewResults(NumResultColumns(ns))
  /\ totalNumIterations' = TotalNumIterations(nb, ns, control.treeThinningRate)
  /\ majorIterationNum' = 0
  /\ k' = 0
  /\ pc' = "loop"
  /\ treeNum' = 0 /\ isThinningIteration' = FALSE
  /\ iterationLog' = <<>> /\ numIterations' = 0 /\ numCallbacks' = 0
  /\ callbackArgs' = NotCalled
  /\ sampleIteration' = [j \in 1..NumResultColumns(ns) |-> 0]
  /\ lastOp' = "runSampler" /\ returned' = "running" /\ warned' = FALSE
  /\ UNCHANGED <<leafVars, activeFits, externalPtrAddr, createCall, file, fitMutex, finalizer,
                 deleteCount, reach, finalizePc, controlVars, dataVars, scratchVars,
                 stateVars, modelVars>>

RunSamplerBegin(nb, ns) == RunSamplerFrom(nb, ns, 0)

\* the loop test succeeds: the head of one iteration, up to the tree sweep
IterationBegin ==
  /\ pc = "loop"
  /\ k < totalNumIterations
  /\ isThinningIteration' = IsThinningIteration(k, control.treeThinningRate)
  /\ majorIterationNum' = MajorIterationNum(k, control.treeThinningRate)
  /\ totalTestFits' = IF ~isThinningIteration' /\ numTestObservations > 0
                      THEN VecConst(numTestObservations, R(0)) ELSE totalTestFits
  /\ treeNum' = 0
  /\ iterationLog' = <<>>
  /\ pc' = "sweep"
  /\ UNCHANGED <<leafVars, interfaceVars, controlVars, dataVars, scratchVars, trees, treeFits, totalFits, modelVars,
                 k, numBurnIn, numSamples, totalNumIterations, results, numIterations,
                 sampleIteration, numCallbacks, callbackArgs, lastOp, returned, warned>>

\* the body of the loop over the trees, for tree treeNum
TreeUpdate ==
  /\ pc = "sweep"
  /\ treeNum < NumTrees
  /\ LET oldTreeFits == treeFits[treeNum + 1]
     IN  /\ treeY' = calculateResidualsFromOtherTreeFits(yRescaled, totalFits, oldTreeFits)
         /\ \E tree \in drawFromPosteriors(trees[treeNum + 1], Xt, cutPoints, numCutsPerVariable,
                                           numObservations, numPredictors) :
              LET current == getCurrentFits(tree, Xt_test, cutPoints, numTestObservations,
                                            numPredictors,
                                            ~isThinningIteration /\ numTestObservations > 0)
                  currFits == current.trainingFits
              IN  /\ trees' = [trees EXCEPT ![treeNum + 1] = tree]
                  /\ totalFits' = updateTotalFits(oldTreeFits, currFits, totalFits)
                  /\ totalTestFits' =
                       IF ~isThinningIteration /\ numTestObservations > 0
                       THEN addTestFits(totalTestFits, current.testFits)
                       ELSE totalTestFits
                  /\ treeFits' = [treeFits EXCEPT ![treeNum + 1] = currFits]
  /\ iterationLog' = Append(iterationLog, <<"tree", treeNum>>)
  /\ treeNum' = treeNum + 1
  /\ UNCHANGED <<leafVars, interfaceVars, controlVars, dataVars, yRescaled, Xt, Xt_test, numCutsPerVariable, cutPoints,
                 dataScale, modelVars, pc, k, numBurnIn, numSamples, totalNumIterations,
                 isThinningIteration, majorIterationNum, results, numIterations,
                 sampleIteration, numCallbacks, callbackArgs, lastOp, returned, warned>>

\* after the sweep: the latent or sigma draw, then on a non-thinning
\* iteration storeSamples and the callback; ++k
IterationEnd ==
  /\ pc = "sweep"
  /\ treeNum = NumTrees
  /\ IF control.responseIsBinary
     THEN /\ yRescaled' \in sampleProbitLatentVariables(y, offset)
          /\ sigma' = sigma
     ELSE /\ sigma' \in SigmaDraws
          /\ yRescaled' = yRescaled
  /\ LET drawn == Append(iterationLog,
                         IF control.responseIsBinary THEN <<"latents">> ELSE <<"sigma">>)
         simNum == SimNum(majorIterationNum, numBurnIn)
         stored == storeSamples(results, control, totalFits, totalTestFits, offset, testOffset,
                                numTestObservations, dataScale, sigma',
                                countVariableUses(trees, numPredictors), simNum)
     IN  IF ~isThinningIteration
         THEN /\ results' = stored
              /\ sampleIteration' = IF simNum < Len(sampleIteration)
                                    THEN [sampleIteration EXCEPT ![simNum + 1] = k + 1]
                                    ELSE sampleIteration
              /\ IF control.callback
                 THEN /\ callbackArgs' =
                           CallbackArguments(stored, IsBurningIn(majorIterationNum, numBurnIn),
                                             simNum, numObservations, numTestObservations)
                      /\ numCallbacks' = numCallbacks + 1
                      /\ iterationLog' = drawn \o << <<"store", simNum>>, <<"callback">> >>
                 ELSE /\ UNCHANGED <<callbackArgs, numCallbacks>>
                      /\ iterationLog' = Append(drawn, <<"store", simNum>>)
         ELSE /\ UNCHANGED <<results, sampleIteration, callbackArgs, numCallbacks>>
              /\ iterationLog' = drawn
  /\ numIterations' = numIterations + 1
  /\ k' = (k + 1) % UINT_MODULUS
  /\ pc' = "loop"
  /\ UNCHANGED <<leafVars, interfaceVars, controlVars, dataVars, Xt, Xt_test, treeY, numCutsPerVariable, cutPoints,
                 dataScale, stateVars, scale, treeNum, numBurnIn, numSamples,
                 totalNumIterations, isThinningIteration, majorIterationNum,
                 lastOp, returned, warned>>

\* the loop test fails: the tail of runSampler
RunSamplerReturn ==
  /\ pc = "loop"
  /\ ~(k < totalNumIterations)
  /\ IF numSamples = 0
     THEN results' = NoResults /\ returned' = "NULL"
     ELSE results' = results /\ returned' = "Results"
  /\ pc' = "idle"
  /\ UNCHANGED <<leafVars, interfaceVars, controlVars, dataVars, scratchVars, stateVars, modelVars,
                 k, treeNum, numBurnIn, numSamples, totalNumIterations,
                 isThinningIteration, majorIterationNum, iterationLog, numIterations,
                 sampleIteration, numCallbacks, callbackArgs, lastOp, warned>>

RunSampler == \E args \in RunArguments : RunSamplerBegin(args[1], args[2])

\* the locals and the Results of the last runSampler call are gone when
\* another member function is entered
RunForgotten ==
  /\ pc' = "idle" /\ k' = 0 /\ treeNum' = 0 /\ numBurnIn' = 0 /\ numSamples' = 0
  /\ totalNumIterations' = 0 /\ isThinningIteration' = FALSE /\ majorIterationNum' = 0
  /\ results' = NoResults /\ iterationLog' = <<>> /\ numIterations' = 0
  /\ sampleIteration' = <<>> /\ numCallbacks' = 0 /\ callbackArgs' = NotCalled

(***************************************************************************)
(* setResponse and setOffset.                                              *)
(***************************************************************************)
\* the continuous branch shared by setResponse and setOffset: sigma and the
\* prior scale are carried over on the original scale of the response
Rescaled(newY, newOffset) ==
  LET sigmaUnscaled == RMul(sigma, dataScale.range)
      priorUnscaled == RMul(RMul(scale, dataScale.range), dataScale.range)
      sc == rescaleResponse(newY, newOffset)
  IN  [yRescaled |-> sc.yRescaled, dataScale |-> sc.dataScale,
       sigma |-> RDiv(sigmaUnscaled, sc.dataScale.range),
       scale |-> RDiv(priorUnscaled, RMul(sc.dataScale.range, sc.dataScale.range))]

SetResponseOrOffset(newY, newOffset) ==
  /\ y' = newY /\ offset' = newOffset
  /\ IF ~control.responseIsBinary
     THEN LET r == Rescaled(newY, newOffset)
          IN  /\ yRescaled' = r.yRescaled /\ dataScale' = r.dataScale
              /\ sigma' = r.sigma /\ scale' = r.scale
     ELSE /\ yRescaled' \in sampleProbitLatentVariables(newY, newOffset)
          /\ UNCHANGED <<dataScale, sigma, scale>>
  /\ returned' = "void" /\ warned' = FALSE
  /\ UNCHANGED <<leafVars, interfaceVars, controlVars, X, X_test, testOffset, numTestObservations, Xt, Xt_test, treeY,
                 numCutsPerVariable, cutPoints, stateVars>>
  /\ RunForgotten

SetResponse(newY) ==
  /\ pc = "idle"
  /\ SetResponseOrOffset(newY, offset)
  /\ lastOp' = "setResponse"

SetOffset(newOffset) ==
  /\ pc = "idle"
  /\ SetResponseOrOffset(y, newOffset)
  /\ lastOp' = "setOffset"

(***************************************************************************)
(* setPredictor and updatePredictors.                                      *)
(***************************************************************************)
\* columns[i] of the column-major matrix M overwritten with column i of src
InstallColumns(M, columns, src, numRows) ==
  [idx \in DOMAIN M |->
     LET row == (idx - 1) % numRows
         col == (idx - 1) \div numRows
         hits == { i \in DOMAIN columns : columns[i] = col }
     IN  IF hits = {} THEN M[idx]
         ELSE At(src, row + ((CHOOSE i \in hits : \A h \in hits : h <= i) - 1) * numRows)]

\* the same columns of the row-major Xt
InstallTransposed(Mt, columns, src, numRows, numCols) ==
  [idx \in DOMAIN Mt |->
     LET row == (idx - 1) \div numCols
         col == (idx - 1) % numCols
         hits == { i \in DOMAIN columns : columns[i] = col }
     IN  IF hits = {} THEN Mt[idx]
         ELSE At(src, row + ((CHOOSE i \in hits : \A h \in hits : h <= i) - 1) * numRows)]

\* the copy of the old columns taken from the first column of X whatever
\* the columns replaced
C6_Mutant_SavedColumns(M, columns, numRows) ==
  [idx \in 1..(Len(columns) * numRows) |-> At(M, (idx - 1) % numRows)]

\* oldPredictor: the copies of columns[i] of data.X taken on entry
SavedColumns(M, columns, numRows) ==
  [idx \in 1..(Len(columns) * numRows) |->
     At(M, ((idx - 1) % numRows) + columns[((idx - 1) \div numRows) + 1] * numRows)]

\* the loop "for (treeNum = 0; treeNum < numTrees && allTreesAreValid; ++treeNum)":
\* the trees updated, how many of them, and whether all of those are valid
RECURSIVE UpdateTreesFrom(_, _, _, _, _, _)
UpdateTreesFrom(t, ts, Mt, cuts, n, p) ==
  IF t >= Len(ts) THEN [trees |-> ts, treeNum |-> t, allTreesAreValid |-> TRUE]
  ELSE LET updated == updateWithNewCovariates(ts[t + 1], Mt, cuts, n, p)
           next == [ts EXCEPT ![t + 1] = updated]
       IN  IF isValid(updated) THEN UpdateTreesFrom(t + 1, next, Mt, cuts, n, p)
           ELSE [trees |-> next, treeNum |-> t + 1, allTreesAreValid |-> FALSE]

\* trees 0 .. count - 1 updated again (the rollback of updatePredictors)
ReupdateTrees(ts, count, Mt, cuts, n, p) ==
  [t \in DOMAIN ts |-> IF t <= count THEN updateWithNewCovariates(ts[t], Mt, cuts, n, p)
                       ELSE ts[t]]

\* updateTrainingFits: tree by tree, totalFits -= treeFits; treeFits = fits; totalFits += treeFits
RECURSIVE updateTrainingFitsFrom(_, _, _, _)
updateTrainingFitsFrom(t, ts, currTreeFits, total) ==
  IF t > Len(ts) THEN [treeFits |-> currTreeFits, totalFits |-> total]
  ELSE LET fits == getFits(ts[t])
       IN  updateTrainingFitsFrom(t + 1, ts, [currTreeFits EXCEPT ![t] = fits],
                                  VecAdd(VecSub(total, currTreeFits[t]), fits))

updateTrainingFits(ts, currTreeFits, total) == updateTrainingFitsFrom(1, ts, currTreeFits, total)

SetPredictor(newPredictor) ==
  /\ pc = "idle"
  /\ lastOp' = "setPredictor"
  /\ \E cp \in { setCutPoints(AllColumns(numPredictors), control.useQuantiles, X,
                                numObservations, maxNumCuts, numCutsPerVariable, cutPoints) } :
     \E newXt \in { Transpose(newPredictor, numObservations, numPredictors) } :
     \E loop \in { UpdateTreesFrom(0, trees, newXt, cp.cutPoints, numObservations,
                                   numPredictors) } :
     LET fits == updateTrainingFits(loop.trees, treeFits, totalFits)
     IN  /\ numCutsPerVariable' = cp.numCutsPerVariable
         /\ cutPoints' = cp.cutPoints
         /\ warned' = cp.warning
         /\ IF cp.error
            THEN /\ returned' = "error"
                 /\ UNCHANGED <<X, Xt, stateVars>>
            ELSE /\ X' = newPredictor
                 /\ Xt' = newXt
                 /\ trees' = loop.trees
                 /\ returned' = IF loop.allTreesAreValid THEN "true" ELSE "false"
                 /\ IF loop.allTreesAreValid
                    THEN treeFits' = fits.treeFits /\ totalFits' = fits.totalFits
                    ELSE UNCHANGED <<treeFits, totalFits>>
                 /\ UNCHANGED totalTestFits
  /\ UNCHANGED <<leafVars, interfaceVars, controlVars, y, offset, X_test, testOffset, numTestObservations,
                 yRescaled, Xt_test, treeY, dataScale, modelVars>>
  /\ RunForgotten

UpdatePredictors(newPredictor, columns) ==
  /\ pc = "idle"
  /\ lastOp' = "updatePredictors"
  /\ LET n == numObservations
         p == numPredictors
         oldPredictor == SavedColumns(X, columns, n)
         oldCutPoints == [i \in DOMAIN columns |-> At(cutPoints, columns[i])]
     IN
     \E cp \in { setCutPoints(columns, control.useQuantiles, X, n, maxNumCuts,
                                numCutsPerVariable, cutPoints) } :
     \E newXt \in { InstallTransposed(Xt, columns, newPredictor, n, p) } :
     \E loop \in { UpdateTreesFrom(0, trees, newXt, cp.cutPoints, n, p) } :
     LET newX == InstallColumns(X, columns, newPredictor, n)
         restoredX == InstallColumns(newX, columns, oldPredictor, n)
         restoredXt == InstallTransposed(newXt, columns, oldPredictor, n, p)
         restoredCuts == [c \in DOMAIN cp.cutPoints |->
                            LET hits == { i \in DOMAIN columns : columns[i] = c - 1 }
                            IN  IF hits = {} THEN cp.cutPoints[c]
                                ELSE oldCutPoints[CHOOSE i \in hits : \A h \in hits : h <= i]]
         fits == updateTrainingFits(loop.trees, treeFits, totalFits)
     IN  /\ numCutsPerVariable' = cp.numCutsPerVariable
         /\ warned' = cp.warning
         /\ IF cp.error
            THEN /\ returned' = "error"
                 /\ cutPoints' = cp.cutPoints
                 /\ UNCHANGED <<X, Xt, stateVars>>
            ELSE /\ returned' = IF loop.allTreesAreValid THEN "true" ELSE "false"
                 /\ UNCHANGED totalTestFits
                 /\ IF ~loop.allTreesAreValid
                    THEN /\ X' = restoredX
                         /\ cutPoints' = restoredCuts
                         /\ Xt' = restoredXt
                         /\ trees' = ReupdateTrees(loop.trees, loop.treeNum, restoredXt,
                                                   restoredCuts, n, p)
                         /\ UNCHANGED <<treeFits, totalFits>>
                    ELSE /\ X' = newX
                         /\ cutPoints' = cp.cutPoints
                         /\ Xt' = newXt
                         /\ trees' = loop.trees
                         /\ treeFits' = fits.treeFits /\ totalFits' = fits.totalFits
  /\ UNCHANGED <<leafVars, interfaceVars, controlVars, y, offset, X_test, testOffset, numTestObservations,
                 yRescaled, Xt_test, treeY, dataScale, modelVars>>
  /\ RunForgotten

(***************************************************************************)
(* setTestPredictor, setTestPredictorAndOffset and setTestOffset.          *)
(***************************************************************************)
\* the address of the fit itself, passed for "no test offset supplied"
\* the sentinel no different from a null offset
C24_Mutant_INVALID_ADDRESS == NULL

INVALID_ADDRESS == "INVALID_ADDRESS"

\* updateTestFits: totalTestFits zeroed, then each tree's test fits added
RECURSIVE updateTestFitsFrom(_, _, _, _, _, _, _)
updateTestFitsFrom(t, ts, Mt_test, cuts, m, p, total) ==
  IF t > Len(ts) THEN total
  ELSE updateTestFitsFrom(t + 1, ts, Mt_test, cuts, m, p,
                          VecAdd(total, getTestFits(ts[t], Mt_test, cuts, m, p)))

updateTestFits(ts, Mt_test, cuts, m, p) ==
  updateTestFitsFrom(1, ts, Mt_test, cuts, m, p, VecConst(m, R(0)))

\* the first branch frees Xt_test only, totalTestFits is kept
C12_Mutant_setTestPredictorAndOffset(newX_test, newTestOffset, m, st) ==
  IF m = 0 \/ newX_test = NULL
  THEN [st EXCEPT !.Xt_test = NULL, !.X_test = NULL, !.numTestObservations = 0,
                  !.testOffset = NULL]
  ELSE st

\* setTestPredictorAndOffset on st, the test fields of the fit: the buffers
\* freed, or reallocated when the number of rows changes and then filled
setTestPredictorAndOffset(newX_test, newTestOffset, m, st) ==
  IF m = 0 \/ newX_test = NULL
  THEN [st EXCEPT !.Xt_test = NULL, !.totalTestFits = NULL, !.X_test = NULL,
                  !.numTestObservations = 0, !.testOffset = NULL]
  ELSE LET transposed == Transpose(newX_test, m, numPredictors)
       IN  [st EXCEPT !.X_test = newX_test,
                      !.numTestObservations = m,
                      !.Xt_test = transposed,
                      !.testOffset = IF newTestOffset # INVALID_ADDRESS THEN newTestOffset ELSE @,
                      !.totalTestFits = updateTestFits(trees, transposed, cutPoints, m,
                                                       numPredictors)]

TestFields ==
  [X_test |-> X_test, numTestObservations |-> numTestObservations, testOffset |-> testOffset,
   Xt_test |-> Xt_test, totalTestFits |-> totalTestFits]

SetTestPredictorAndOffset(newX_test, newTestOffset, m) ==
  /\ pc = "idle"
  /\ LET st == setTestPredictorAndOffset(newX_test, newTestOffset, m, TestFields)
     IN  /\ X_test' = st.X_test /\ numTestObservations' = st.numTestObservations
         /\ testOffset' = st.testOffset /\ Xt_test' = st.Xt_test
         /\ totalTestFits' = st.totalTestFits
  /\ returned' = "void" /\ warned' = FALSE
  /\ UNCHANGED <<leafVars, interfaceVars, controlVars, y, offset, X, yRescaled, Xt, treeY, numCutsPerVariable,
                 cutPoints, dataScale, trees, treeFits, totalFits, modelVars>>
  /\ RunForgotten

SetTestPredictor(newTestPredictor, m) ==
  /\ SetTestPredictorAndOffset(newTestPredictor, INVALID_ADDRESS, m)
  /\ lastOp' = "setTestPredictor"

SetTestOffset(newTestOffset) ==
  /\ pc = "idle"
  /\ testOffset' = newTestOffset
  /\ lastOp' = "setTestOffset"
  /\ returned' = "void" /\ warned' = FALSE
  /\ UNCHANGED <<leafVars, interfaceVars, controlVars, y, offset, X, X_test, numTestObservations, scratchVars,
                 stateVars, modelVars>>
  /\ RunForgotten

SetTestPredictorCall ==
  \E i \in DOMAIN TestPredictors :
    SetTestPredictor(TestPredictors[i].X_test, TestPredictors[i].numTestObservations)

SetTestPredictorAndOffsetCall ==
  \E i \in DOMAIN TestPredictors, newTestOffset \in TestOffsets :
    /\ SetTestPredictorAndOffset(TestPredictors[i].X_test, newTestOffset,
                                 TestPredictors[i].numTestObservations)
    /\ lastOp' = "setTestPredictorAndOffset"

SetTestOffsetCall == \E newTestOffset \in TestOffsets : SetTestOffset(newTestOffset)

SetResponseCall ==
  \E newY \in (IF control.responseIsBinary THEN BinaryResponses ELSE ContinuousResponses) :
    SetResponse(newY)

SetOffsetCall == \E newOffset \in Offsets : SetOffset(newOffset)

SetPredictorCall == \E newPredictor \in NewPredictors : SetPredictor(newPredictor)

UpdatePredictorsCall == \E u \in UpdateInputs : UpdatePredictors(u.newPredictor, u.columns)

(***************************************************************************)
(* The R interface: dbarts_create and fitFinalizer.  An integer slot holds  *)
(* an int or NA_INTEGER; a real slot holds fourths / 4 + e11 / 10^11 with   *)
(* |e11| small, or NaN.  Every slot is of the SEXP type its initializer     *)
(* asks for.                                                                *)
(***************************************************************************)

\* INT_MIN of the reduced-width int
NA_INTEGER == -(UINT_MODULUS \div 2)

Real(fourths, e11) == [fourths |-> fourths, e11 |-> e11, nan |-> FALSE]
RealNaN == [fourths |-> 0, e11 |-> 0, nan |-> TRUE]
\* a < b on reals: the fourths decide, the e11 break their ties
RealLess(a, b) == a.fourths < b.fourths \/ (a.fourths = b.fourths /\ a.e11 < b.e11)
RealLeq(a, b) == ~RealLess(b, a)
RealSum3(a, b, c) == Real(a.fourths + b.fourths + c.fourths, a.e11 + b.e11 + c.e11)
\* the tolerance 1.0e-10 in units of 10^-11
TOLERANCE_E11 == 10

\* every probability within its own range, the sum accepted whatever it is
C14_Mutant_ProposalProbabilitiesSumToOne(bd, swap, change) == TRUE

\* !(std::fabs(birthOrDeath + swap + change - 1.0) >= 1.0e-10)
ProposalProbabilitiesSumToOne(bd, swap, change) ==
  LET s == RealSum3(bd, swap, change)
  IN  s.fourths = 4 /\ Abs(s.e11) < TOLERANCE_E11

\* initializeControlFromExpression: the error raised, or "none" and the
\* Control filled in; control0 is the default-constructed Control
initializeControlFromExpression(control0, e) ==
  LET err(msg) == [error |-> msg, control |-> control0]
      n_burn == IF e.n_burn = NA_INTEGER THEN 0 ELSE e.n_burn
      n_threads == IF e.n_threads = NA_INTEGER THEN 1 ELSE e.n_threads
      n_thin == IF e.n_thin = NA_INTEGER THEN 1 ELSE e.n_thin
      printCutoffs == IF e.printCutoffs = NA_INTEGER THEN 0 ELSE e.printCutoffs
  IN  IF e.binary = NA_INTEGER THEN err("Binary response must be either true or false.")
      ELSE IF e.verbose = NA_INTEGER THEN err("Verbose must be either true or false.")
      ELSE IF e.keepTrainingFits = NA_INTEGER
           THEN err("Keep training fits must be either true or false.")
      ELSE IF e.useQuantiles = NA_INTEGER THEN err("Use quantiles must be either true or false.")
      ELSE IF e.n_samples = NA_INTEGER THEN err("Number of samples cannot be NA.")
      ELSE IF e.n_samples <= 0 THEN err("Number of samples must be positive.")
      ELSE IF n_burn < 0 THEN err("Number of burn-in steps must be non-negative.")
      ELSE IF e.n_trees = NA_INTEGER THEN err("Number of trees cannot be NA.")
      ELSE IF e.n_trees <= 0 THEN err("Number of trees must be positive.")
      ELSE IF n_threads <= 0 THEN err("Number of threads must be positive.")
      ELSE IF n_thin < 0 THEN err("Tree thinning rate must be non-negative.")
      ELSE IF e.printEvery # NA_INTEGER /\ e.printEvery <= 0
           THEN err("Print every must be positive.")
      ELSE IF printCutoffs < 0 THEN err("Print cutoffs must be non-negative.")
      ELSE [error |-> "none",
            control |-> [responseIsBinary |-> e.binary # 0,
                         verbose |-> e.verbose # 0,
                         keepTrainingFits |-> e.keepTrainingFits # 0,
                         useQuantiles |-> e.useQuantiles # 0,
                         numSamples |-> e.n_samples,
                         numBurnIn |-> n_burn,
                         numTrees |-> e.n_trees,
                         numThreads |-> n_threads,
                         treeThinningRate |-> n_thin,
                         printEvery |-> IF e.printEvery # NA_INTEGER THEN e.printEvery
                                        ELSE control0.printEvery,
                         printCutoffs |-> printCutoffs]]

\* initializeModelFromExpression: the error raised, or "none" and the Model
initializeModelFromExpression(e) ==
  LET err(msg) == [error |-> msg, model |-> NULL]
      zero == Real(0, 0)
      one == Real(4, 0)
  IN  IF e.p_birth_death.nan THEN err("Probability of birth/death rule must be a real number.")
      ELSE IF RealLeq(e.p_birth_death, zero) \/ RealLess(one, e.p_birth_death)
           THEN err("Probability of birth/death rule must be in (0, 1].")
      ELSE IF e.p_swap.nan THEN err("Probability of swap rule must be a real number.")
      ELSE IF RealLess(e.p_swap, zero) \/ RealLeq(one, e.p_swap)
           THEN err("Probability of swap rule must be in [0, 1).")
      ELSE IF e.p_change.nan THEN err("Probability of change rule must be a real number.")
      ELSE IF RealLess(e.p_change, zero) \/ RealLeq(one, e.p_change)
           THEN err("Probability of change rule must be in [0, 1).")
      ELSE IF ~ProposalProbabilitiesSumToOne(e.p_birth_death, e.p_swap, e.p_change)
           THEN err("Rule proposal probabilities must sum to 1.0")
      ELSE IF e.p_birth.nan
           THEN err("Probability of birth in birth/death rule must be a real number.")
      ELSE IF RealLeq(e.p_birth, zero) \/ RealLeq(one, e.p_birth)
           THEN err("Probability of birth in birth/death rule must be in (0, 1).")
      ELSE IF e.power.nan THEN err("Tree prior power be a real number.")
      ELSE IF RealLeq(e.power, zero) THEN err("Tree prior power must be positive.")
      ELSE IF e.base.nan THEN err("Tree prior base be a real number.")
      ELSE IF RealLeq(e.base, zero) \/ RealLeq(one, e.base)
           THEN err("Tree prior base must be in (0, 1).")
      ELSE IF e.k.nan THEN err("k must be a real number.")
      ELSE IF RealLeq(e.k, zero) THEN err("k must be positive.")
      ELSE IF e.df.nan THEN err("sigma prior degrees of freedom must be a real number.")
      ELSE IF RealLeq(e.df, zero) THEN err("sigma prior degrees of freedom must be positive.")
      ELSE IF e.quantile.nan THEN err("sigma prior quantile must be a real number.")
      ELSE IF RealLeq(e.quantile, zero) \/ RealLeq(one, e.quantile)
           THEN err("sigma prior quantile must be in (0, 1).")
      ELSE [error |-> "none",
            model |-> [birthOrDeathProbability |-> e.p_birth_death,
                       swapProbability |-> e.p_swap,
                       changeProbability |-> e.p_change,
                       birthProbability |-> e.p_birth,
                       treePrior |-> [power |-> e.power, base |-> e.base],
                       k |-> e.k, df |-> e.df, quantile |-> e.quantile]]

\* initializeDataFromExpression: the error raised, or "none"; a matrix slot
\* is given by its dimensions, a vector slot by its length (0: not supplied)
initializeDataFromExpression(e) ==
  LET sigmaEstimate == IF e.sigma.nan THEN Real(4, 0) ELSE e.sigma
  IN  IF e.y = 0 THEN "Length of y must be greater than 0."
      ELSE IF e.x[1] # e.y THEN "Number of rows of x and length of y must be equal."
      ELSE IF e.varTypes # e.x[2]
           THEN "Length of variable types must equal number of columns in x."
      ELSE IF e.x_test[1] * e.x_test[2] # 0 /\ e.x_test[2] # e.x[2]
           THEN "Number of columns of x.test and x must be equal."
      ELSE IF e.weights # 0 /\ e.weights # e.y THEN "Length of weights must equal length of y."
      ELSE IF e.offset # 0 /\ e.offset # e.y THEN "Length of offset must equal length of y."
      ELSE IF RealLeq(sigmaEstimate, Real(0, 0)) THEN "sigma estimate must be positive."
      ELSE IF e.n_cuts # e.x[2]
           THEN "Length of maximum number of cuts and the number of columns of x must be equal."
      ELSE "none"

\* initializeDataFromExpression when it raises no error: the Data it leaves,
\* a vector field given by the length of the array it points to, 0 for NULL;
\* data0 is the Data as constructed
initializedData(data0, e) ==
  LET afterWeights == e.weights
  IN  [numObservations |-> e.y, numPredictors |-> e.x[2],
       numTestObservations |-> IF e.x_test[1] * e.x_test[2] = 0 THEN 0 ELSE e.x_test[1],
       weights |-> IF e.offset = 0 THEN 0 ELSE afterWeights,
       offset |-> IF e.offset = 0 THEN data0.offset ELSE e.offset]

\* the error dbarts_create raises on its arguments before it constructs a
\* fit, "none" if it raises none
CreateError(a) ==
  IF a.controlClass # "dbartsControl"
  THEN "'control' argument to dbarts_create not of class 'dbartsControl'."
  ELSE IF a.modelClass # "dbartsModel"
  THEN "'model' argument to dbarts_create not of class 'dbartsModel'."
  ELSE IF a.dataClass # "dbartsData"
  THEN "'data' argument to dbarts_create not of class 'dbartsData'."
  ELSE LET c == initializeControlFromExpression(a.control0, a.control)
       IN  IF c.error # "none" THEN c.error
           ELSE LET m == initializeModelFromExpression(a.model)
                IN  IF m.error # "none" THEN m.error
                    ELSE initializeDataFromExpression(a.data)

\* an external pointer not in use: R holds no reference to it and its
\* finalizer is not running
FreePointers ==
  { q \in 1..MaxFits : q \notin DOMAIN externalPtrAddr /\ reach[q] = "none"
                        /\ finalizer[q] = NotFinalizing }

\* dbarts_create: the three initializers, then new BARTFit, the external
\* pointer with its finalizer, and the insertion into activeFits
DbartsCreate(a) ==
  /\ pc = "idle"
  /\ finalizePc = "idle" /\ fitMutex = "unlocked"
  /\ FreePointers # {}
  /\ createCall' = a
  /\ lastOp' = "dbarts_create"
  /\ UNCHANGED <<fitMutex, finalizer, finalizePc, lastPointer>>
  /\ IF CreateError(a) # "none"
     THEN /\ returned' = "error"
          /\ UNCHANGED <<activeFits, externalPtrAddr, deleteCount, reach>>
     ELSE LET result == CHOOSE q \in FreePointers : \A r \in FreePointers : q <= r
              fit == [control |-> initializeControlFromExpression(a.control0, a.control).control,
                      model |-> initializeModelFromExpression(a.model).model,
                      data |-> initializedData(a.data0, a.data)]
          IN  /\ externalPtrAddr' = (result :> fit) @@ externalPtrAddr
              /\ activeFits' = activeFits \cup {result}
              /\ deleteCount' = [deleteCount EXCEPT ![result] = 0]
              /\ reach' = [reach EXCEPT ![result] = "reachable"]
              /\ returned' = "externalptr"
  /\ UNCHANGED <<controlVars, dataVars, scratchVars, stateVars, modelVars, runVars, warned,
                 file, leafVars>>

\* fitFinalizer, run in one piece on the interpreter's thread, on an
\* external pointer the collector found unreachable
FitFinalizer(fitExpr) ==
  /\ pc = "idle"
  /\ finalizePc = "idle" /\ fitMutex = "unlocked"
  /\ fitExpr \in DOMAIN externalPtrAddr
  /\ finalizer[fitExpr] = NotFinalizing
  /\ lastOp' = "fitFinalizer"
  /\ returned' = "void"
  /\ reach' = [reach EXCEPT ![fitExpr] = "none"]
  /\ UNCHANGED <<fitMutex, finalizer, finalizePc, lastPointer, deleteCount>>
  /\ IF fitExpr \notin activeFits
     THEN UNCHANGED <<activeFits, externalPtrAddr>>
     ELSE /\ activeFits' = activeFits \ {fitExpr}
          /\ externalPtrAddr' = [q \in DOMAIN externalPtrAddr \ {fitExpr} |-> externalPtrAddr[q]]
  /\ UNCHANGED <<controlVars, dataVars, scratchVars, stateVars, modelVars, runVars, warned,
                 createCall, file, leafVars>>

\* the slots of valid arguments
BaseControl ==
  [binary |-> 0, verbose |-> 0, keepTrainingFits |-> 1, useQuantiles |-> 0,
   n_samples |-> 2, n_burn |-> 1, n_trees |-> 2, n_threads |-> 1, n_thin |-> 1,
   printEvery |-> 1, printCutoffs |-> 0]
BaseModel ==
  [p_birth_death |-> Real(2, 0), p_swap |-> Real(1, 0), p_change |-> Real(1, 0),
   p_birth |-> Real(2, 0), power |-> Real(8, 0), base |-> Real(3, 0),
   k |-> Real(8, 0), df |-> Real(12, 0), quantile |-> Real(3, 0)]
BaseData ==
  [y |-> 2, x |-> <<2, 2>>, varTypes |-> 2, x_test |-> <<0, 0>>, weights |-> 0, offset |-> 0,
   sigma |-> Real(4, 0), n_cuts |-> 2]

IntegerSlots ==
  {"n_samples", "n_burn", "n_trees", "n_threads", "n_thin", "printEvery", "printCutoffs"}
IntegerInputs == {NA_INTEGER, -1, 0, 1}
ControlExpressions ==
  { [BaseControl EXCEPT ![s] = v] : s \in IntegerSlots, v \in IntegerInputs }
    \cup { [BaseControl EXCEPT !.binary = NA_INTEGER], [BaseControl EXCEPT !.binary = 1] }
ProposalProbabilities ==
  { <<Real(2, 0), Real(1, 0), Real(1, 0)>>, <<Real(4, 0), Real(0, 0), Real(0, 0)>>,
    <<Real(2, 0), Real(1, 0), Real(2, 0)>>, <<Real(1, 0), Real(1, 0), Real(1, 0)>>,
    <<Real(2, 5), Real(1, 0), Real(1, 4)>>, <<Real(2, 5), Real(1, 0), Real(1, 5)>>,
    <<Real(2, 0), Real(1, -11), Real(1, 0)>>, <<Real(0, 0), Real(2, 0), Real(2, 0)>>,
    <<Real(2, 0), Real(2, 0), RealNaN>> }
ModelExpressions ==
  { [BaseModel EXCEPT !.p_birth_death = pr[1], !.p_swap = pr[2], !.p_change = pr[3]] :
      pr \in ProposalProbabilities }
    \cup { [BaseModel EXCEPT !.p_birth = Real(4, 0)], [BaseModel EXCEPT !.k = Real(0, 0)] }
DataExpressions ==
  { BaseData, [BaseData EXCEPT !.y = 0], [BaseData EXCEPT !.sigma = Real(0, 0)],
    [BaseData EXCEPT !.sigma = RealNaN, !.x_test = <<1, 2>>],
    [BaseData EXCEPT !.weights = 2], [BaseData EXCEPT !.weights = 2, !.offset = 2] }
\* the arguments of dbarts_create: one of the three varied, or two of them
CreateArguments ==
  { [controlClass |-> "dbartsControl", modelClass |-> "dbartsModel", dataClass |-> "dbartsData",
     control0 |-> [printEvery |-> 1], data0 |-> [weights |-> 0, offset |-> 0], control |-> c, model |-> m, data |-> d] :
      <<c, m, d>> \in (ControlExpressions \X {BaseModel} \X {BaseData})
                        \cup ({BaseControl} \X ModelExpressions \X DataExpressions)
                        \cup ({[BaseControl EXCEPT !.n_trees = 0], [BaseControl EXCEPT !.n_thin = 2]}
                                \X ModelExpressions \X {BaseData}) }
    \cup { [controlClass |-> "dbartsModel", modelClass |-> "dbartsModel",
            dataClass |-> "dbartsData", control0 |-> [printEvery |-> 1], data0 |-> [weights |-> 0, offset |-> 0],
            control |-> BaseControl, model |-> BaseModel, data |-> BaseData] }

DbartsCreateCall == \E a \in CreateArguments : DbartsCreate(a)

FitFinalizerCall == \E fitExpr \in 1..MaxFits : FitFinalizer(fitExpr)

(***************************************************************************)
(* saveToFile.  failure is the call that fails: 0 the open, 1 .. 5 the     *)
(* write of the version string, the control, the model, the data, the      *)
(* state; NumSections + 1 none.                                            *)
(***************************************************************************)
NumSections == 5

\* the scale not put back on the save_failed path
C16_Mutant_saveToFile(failure, binary, range, originalScale, oldFile) ==
  LET scaleFactor == IF binary THEN R(1) ELSE RDiv(SigmaEstimate, range)
      written == RDiv(originalScale, RMul(scaleFactor, scaleFactor))
  IN  IF failure = 0 THEN [returned |-> "false", scale |-> originalScale, file |-> oldFile]
      ELSE IF failure <= NumSections
      THEN [returned |-> "false", scale |-> written,
            file |-> [exists |-> FALSE, sections |-> failure - 1, scale |-> written,
                      unlinked |-> TRUE]]
      ELSE [returned |-> "true", scale |-> originalScale,
            file |-> [exists |-> TRUE, sections |-> NumSections, scale |-> written,
                      unlinked |-> FALSE]]

\* what saveToFile returns, the prior scale it leaves and the file it leaves
saveToFile(failure, binary, range, originalScale, oldFile) ==
  LET scaleFactor == IF binary THEN R(1) ELSE RDiv(SigmaEstimate, range)
      written == RDiv(originalScale, RMul(scaleFactor, scaleFactor))
  IN  IF failure = 0 THEN [returned |-> "false", scale |-> originalScale, file |-> oldFile]
      ELSE IF failure <= NumSections
      THEN [returned |-> "false", scale |-> originalScale,
            file |-> [exists |-> FALSE, sections |-> failure - 1, scale |-> written,
                      unlinked |-> TRUE]]
      ELSE [returned |-> "true", scale |-> originalScale,
            file |-> [exists |-> TRUE, sections |-> NumSections, scale |-> written,
                      unlinked |-> FALSE]]

SaveToFile(failure) ==
  /\ pc = "idle"
  /\ LET r == saveToFile(failure, control.responseIsBinary, dataScale.range, scale, file)
     IN  /\ returned' = r.returned
         /\ scale' = r.scale
         /\ file' = r.file
  /\ lastOp' = "saveToFile"
  /\ warned' = (failure = 0)
  /\ UNCHANGED <<activeFits, externalPtrAddr, createCall, controlVars, dataVars, scratchVars,
                 stateVars, sigma, leafVars, unloadVars>>
  /\ RunForgotten

SaveToFileCall == \E failure \in 0..(NumSections + 1) : SaveToFile(failure)

(***************************************************************************)
(* Leaf scratch of the end-node models (endNodeModel.cpp).  A leaf's       *)
(* memberships are set before it is prepared, and it is stored once it is  *)
(* prepared, as in the tree update.                                        *)
(***************************************************************************)
\* new double[...]: the lowest address that is not live
NewBuffer(m) ==
  CHOOSE a \in 3..MaxBuffers :
    ~m.cells[a].live /\ \A b \in 3..MaxBuffers : ~m.cells[b].live => a <= b
Allocated(m, a, v) == [m EXCEPT !.cells[a] = [live |-> TRUE, data |-> v]]
\* delete [] a
Deleted(m, a) ==
  IF a = 0 THEN m
  ELSE IF a \in {MODEL_XT, CALLER_Y} THEN [m EXCEPT !.misuse = "shared buffer freed"]
  ELSE IF ~m.cells[a].live THEN [m EXCEPT !.misuse = "double free"]
  ELSE [m EXCEPT !.cells[a].live = FALSE]
\* a write through a into the buffer
Written(m, a, v) == [m EXCEPT !.cells[a].data = v]
\* what a read through a gives: -1 for NULL, -2 for a buffer that is not live
Contents(m, a) ==
  IF a = 0 THEN -1 ELSE IF m.cells[a].live THEN m.cells[a].data ELSE -2

\* LinearRegressionNormal::createScratch; v1, v2 are the indeterminate
\* contents of the two new arrays
createScratch(m, v1, v2) ==
  LET c == NewBuffer(m)
      m1 == Allocated(m, c, v1)
      f == NewBuffer(m1)
  IN  [memory |-> Allocated(m1, f, v2),
       scratch |-> [posteriorCovarianceRightFactor |-> f, coefficients |-> c,
                    y |-> 0, Xt |-> MODEL_XT]]

\* LinearRegressionNormal::updateScratchWithMemberships
updateScratchWithMemberships(m, s, isTop, vXt, vFactor) ==
  LET m1 == IF s.Xt # MODEL_XT THEN Deleted(Deleted(m, s.Xt), s.y) ELSE m
      xt == IF isTop THEN MODEL_XT ELSE NewBuffer(m1)
      m2 == IF isTop THEN m1 ELSE Allocated(m1, xt, vXt)
  IN  [memory |-> Written(m2, s.posteriorCovarianceRightFactor, vFactor),
       scratch |-> [s EXCEPT !.Xt = xt, !.y = 0]]

\* LinearRegressionNormal::prepareScratchForLikelihoodAndPosteriorCalculations
prepareScratch(m, s, isTop, vY, vCoefficients) ==
  LET m1 == IF isTop THEN m ELSE Deleted(m, s.y)
      yy == IF isTop THEN CALLER_Y ELSE NewBuffer(m1)
      m2 == IF isTop THEN m1 ELSE Allocated(m1, yy, vY)
  IN  [memory |-> Written(m2, s.coefficients, vCoefficients),
       scratch |-> [s EXCEPT !.y = yy]]

\* the coefficients and the factor aliased, not copied
C20_Mutant_storeScratch(m, source) ==
  [memory |-> m, scratch |-> source]

\* LinearRegressionNormal::storeScratch: the target scratch and the memory
storeScratch(m, source) ==
  LET c == NewBuffer(m)
      m1 == Allocated(m, c, Contents(m, source.coefficients))
      f == NewBuffer(m1)
      m2 == Allocated(m1, f, Contents(m, source.posteriorCovarianceRightFactor))
      xt == NewBuffer(m2)
      m3 == Allocated(m2, xt, Contents(m, source.Xt))
      yy == NewBuffer(m3)
      m4 == Allocated(m3, yy, Contents(m, source.y))
  IN  IF source.Xt # MODEL_XT
      THEN [memory |-> m4,
            scratch |-> [posteriorCovarianceRightFactor |-> f, coefficients |-> c,
                         y |-> yy, Xt |-> xt]]
      ELSE [memory |-> m2,
            scratch |-> [posteriorCovarianceRightFactor |-> f, coefficients |-> c,
                         y |-> source.y, Xt |-> MODEL_XT]]

\* LinearRegressionNormal::restoreScratch: the node's buffers deleted, the
\* stored ones adopted
restoreScratch(m, source, target) ==
  LET m1 == Deleted(Deleted(m, target.coefficients), target.posteriorCovarianceRightFactor)
      m2 == IF target.Xt # MODEL_XT THEN Deleted(Deleted(m1, target.Xt), target.y) ELSE m1
  IN  [memory |-> m2, scratch |-> source]

\* what the four pointers of a scratch read
ScratchContents(m, s) ==
  [posteriorCovarianceRightFactor |-> Contents(m, s.posteriorCovarianceRightFactor),
   coefficients |-> Contents(m, s.coefficients),
   y |-> Contents(m, s.y), Xt |-> Contents(m, s.Xt)]

\* a node gets its scratch: createScratch for the linear-regression model;
\* the mean-normal model has no createScratch and starts with whatever the
\* node's memory holds
CreateLeaf(kind, isTop) ==
  /\ pc = "idle"
  /\ leaf = NoLeaf
  /\ lastOp' = "createScratch"
  /\ IF kind = "MeanNormal"
     THEN /\ \E v1, v2 \in BufferValues :
               leaf' = [kind |-> kind, isTop |-> isTop, phase |-> "prepared",
                        scratch |-> [mu |-> v1, numEffectiveObservations |-> v2]]
          /\ UNCHANGED memory
     ELSE \E v1, v2 \in BufferValues :
            LET r == createScratch(memory, v1, v2)
            IN  /\ leaf' = [kind |-> kind, isTop |-> isTop, phase |-> "created",
                            scratch |-> r.scratch]
                /\ memory' = r.memory
  /\ UNCHANGED <<family, storedScratch, interfaceVars, controlVars, dataVars, scratchVars, stateVars,
                 modelVars, runVars, returned, warned>>

UpdateScratchWithMemberships ==
  /\ pc = "idle"
  /\ leaf # NoLeaf
  /\ lastOp' = "updateScratchWithMemberships"
  /\ IF leaf.kind = "MeanNormal"
     THEN /\ \E v \in BufferValues :
               leaf' = [leaf EXCEPT !.scratch.numEffectiveObservations = v]
          /\ UNCHANGED memory
     ELSE \E vXt, vFactor \in BufferValues :
            LET r == updateScratchWithMemberships(memory, leaf.scratch, leaf.isTop, vXt, vFactor)
            IN  /\ leaf' = [leaf EXCEPT !.scratch = r.scratch, !.phase = "updated"]
                /\ memory' = r.memory
  /\ UNCHANGED <<family, storedScratch, interfaceVars, controlVars, dataVars, scratchVars, stateVars,
                 modelVars, runVars, returned, warned>>

\* drawFromPosterior: mu, or the coefficients in place
DrawFromPosterior ==
  /\ pc = "idle"
  /\ leaf # NoLeaf
  /\ leaf.phase = "prepared"
  /\ lastOp' = "drawFromPosterior"
  /\ \E v \in BufferValues :
       IF leaf.kind = "MeanNormal"
       THEN leaf' = [leaf EXCEPT !.scratch.mu = v] /\ UNCHANGED memory
       ELSE memory' = Written(memory, leaf.scratch.coefficients, v) /\ UNCHANGED leaf
  /\ UNCHANGED <<family, storedScratch, interfaceVars, controlVars, dataVars, scratchVars, stateVars,
                 modelVars, runVars, returned, warned>>

\* prepareScratchForLikelihoodAndPosteriorCalculations
PrepareScratch ==
  /\ pc = "idle"
  /\ leaf # NoLeaf
  /\ leaf.phase # "created"
  /\ lastOp' = "prepareScratch"
  /\ IF leaf.kind = "MeanNormal"
     THEN /\ \E v1, v2 \in BufferValues :
               leaf' = [leaf EXCEPT !.scratch = [mu |-> v1, numEffectiveObservations |-> v2]]
          /\ UNCHANGED memory
     ELSE \E vY, vCoefficients \in BufferValues :
            LET r == prepareScratch(memory, leaf.scratch, leaf.isTop, vY, vCoefficients)
            IN  /\ leaf' = [leaf EXCEPT !.scratch = r.scratch, !.phase = "prepared"]
                /\ memory' = r.memory
  /\ UNCHANGED <<family, storedScratch, interfaceVars, controlVars, dataVars, scratchVars, stateVars,
                 modelVars, runVars, returned, warned>>

\* storeScratch into a target that holds no copy; contents is what the
\* leaf's scratch reads at this moment
StoreScratch ==
  /\ pc = "idle"
  /\ leaf # NoLeaf
  /\ leaf.phase = "prepared"
  /\ storedScratch = NoLeaf
  /\ lastOp' = "storeScratch"
  /\ IF leaf.kind = "MeanNormal"
     THEN /\ storedScratch' = [kind |-> leaf.kind, scratch |-> leaf.scratch,
                               contents |-> leaf.scratch]
          /\ UNCHANGED memory
     ELSE LET r == storeScratch(memory, leaf.scratch)
          IN  /\ storedScratch' = [kind |-> leaf.kind, scratch |-> r.scratch,
                                   contents |-> ScratchContents(memory, leaf.scratch)]
              /\ memory' = r.memory
  /\ UNCHANGED <<family, leaf, interfaceVars, controlVars, dataVars, scratchVars, stateVars,
                 modelVars, runVars, returned, warned>>

\* restoreScratch (the reject path); the stored copy is spent, what it held
\* at the store stays on record
RestoreScratch ==
  /\ pc = "idle"
  /\ storedScratch # NoLeaf
  /\ storedScratch.kind # "spent"
  /\ lastOp' = "restoreScratch"
  /\ IF leaf.kind = "MeanNormal"
     THEN /\ leaf' = [leaf EXCEPT !.scratch = storedScratch.scratch]
          /\ UNCHANGED memory
     ELSE LET r == restoreScratch(memory, storedScratch.scratch, leaf.scratch)
          IN  /\ leaf' = [leaf EXCEPT !.scratch = r.scratch, !.phase = "prepared"]
              /\ memory' = r.memory
  /\ storedScratch' = [storedScratch EXCEPT !.kind = "spent"]
  /\ UNCHANGED <<family, interfaceVars, controlVars, dataVars, scratchVars, stateVars,
                 modelVars, runVars, returned, warned>>

\* the proposal is over: the record of the spent copy is dropped
ForgetStored ==
  /\ pc = "idle"
  /\ storedScratch # NoLeaf
  /\ storedScratch.kind = "spent"
  /\ storedScratch' = NoLeaf
  /\ lastOp' = "accepted"
  /\ UNCHANGED <<family, leaf, memory, interfaceVars, controlVars, dataVars, scratchVars, stateVars,
                 modelVars, runVars, returned, warned>>

CreateLeafCall ==
  \E kind \in {"MeanNormal", "LinearRegressionNormal"}, isTop \in BOOLEAN : CreateLeaf(kind, isTop)

(***************************************************************************)
(* The mean-normal scratch of a parent node and its two children           *)
(* (endNodeModel.cpp).  The parent holds the observations 1 .. 3, the left *)
(* child the first family.split of them.                                   *)
(***************************************************************************)
\* ext_mt_computeIndexedWeightedMean and its unweighted and unindexed
\* variants: the mean of yv over indices, and the sum of the weights
RECURSIVE WeightedSum(_, _, _, _)
WeightedSum(yv, w, indices, upTo) ==
  IF upTo = 0 THEN R(0)
  ELSE FlAdd(WeightedSum(yv, w, indices, upTo - 1),
             IF w = NULL THEN yv[indices[upTo]]
             ELSE FlMul(yv[indices[upTo]], R(w[indices[upTo]])))
RECURSIVE SumOfWeights(_, _, _)
SumOfWeights(w, indices, upTo) ==
  IF upTo = 0 THEN R(0)
  ELSE FlAdd(SumOfWeights(w, indices, upTo - 1), R(w[indices[upTo]]))
computeIndexedWeightedMean(yv, indices, w) ==
  LET n == IF w = NULL THEN R(Len(indices)) ELSE SumOfWeights(w, indices, Len(indices))
  IN  [mean |-> FlDiv(WeightedSum(yv, w, indices, Len(indices)), n), n |-> n]

\* MeanNormal::updateScratchWithMemberships
updateMeanScratchWithMemberships(scratch, indices, w) ==
  [scratch EXCEPT !.numEffectiveObservations =
                    IF w = NULL THEN R(Len(indices)) ELSE SumOfWeights(w, indices, Len(indices)),
                  !.how = IF @ = "unset" THEN "memberships" ELSE @]

\* MeanNormal::prepareScratchForLikelihoodAndPosteriorCalculations
prepareMeanScratch(yv, indices, w) ==
  LET r == computeIndexedWeightedMean(yv, indices, w)
  IN  [mu |-> r.mean,
       numEffectiveObservations |-> IF w = NULL THEN R(Len(indices)) ELSE r.n,
       how |-> "prepared"]

\* the children's means added without their weights
C26_Mutant_prepareScratchFromChildren(leftChild, rightChild) ==
  [mu |-> FlAdd(leftChild.mu, rightChild.mu),
   numEffectiveObservations |-> FlAdd(leftChild.numEffectiveObservations,
                                      rightChild.numEffectiveObservations),
   how |-> "children"]

\* MeanNormal::prepareScratchFromChildren
prepareScratchFromChildren(leftChild, rightChild) ==
  LET n == FlAdd(leftChild.numEffectiveObservations, rightChild.numEffectiveObservations)
  IN  [mu |-> FlAdd(FlMul(leftChild.mu, FlDiv(leftChild.numEffectiveObservations, n)),
                    FlMul(rightChild.mu, FlDiv(rightChild.numEffectiveObservations, n))),
       numEffectiveObservations |-> n,
       how |-> "children"]

\* the observation indices of the parent and of its children
Indices(node) ==
  IF node = "parent" THEN <<1, 2, 3>>
  ELSE IF node = "left" THEN [i \in 1..family.split |-> i]
  ELSE [i \in 1..(3 - family.split) |-> family.split + i]

\* a scratch whose fields were never written: indeterminate values
UnsetScratch == { [mu |-> v, numEffectiveObservations |-> R(1), how |-> "unset"] : v \in {R(0), R(3)} }

\* a node of three observations gets two children
SplitNode(yv, w, numLeft) ==
  /\ pc = "idle"
  /\ family = NoFamily
  /\ w # NULL => Len(w) >= Len(yv)
  /\ \E l, r, q \in UnsetScratch :
       family' = [treeY |-> [i \in DOMAIN yv |-> R(yv[i])], weights |-> w, split |-> numLeft,
                  left |-> l, right |-> r, parent |-> q]
  /\ lastOp' = "split"
  /\ UNCHANGED <<leaf, storedScratch, memory, interfaceVars, controlVars, dataVars, scratchVars,
                 stateVars, modelVars, runVars, returned, warned>>

UpdateMeanScratchWithMemberships(node) ==
  /\ pc = "idle"
  /\ family # NoFamily
  /\ family' = [family EXCEPT
                  ![node] = updateMeanScratchWithMemberships(@, Indices(node), family.weights)]
  /\ lastOp' = "updateScratchWithMemberships"
  /\ UNCHANGED <<leaf, storedScratch, memory, interfaceVars, controlVars, dataVars, scratchVars,
                 stateVars, modelVars, runVars, returned, warned>>

PrepareMeanScratch(node) ==
  /\ pc = "idle"
  /\ family # NoFamily
  /\ family' = [family EXCEPT
                  ![node] = prepareMeanScratch(family.treeY, Indices(node), family.weights)]
  /\ lastOp' = "prepareScratch"
  /\ UNCHANGED <<leaf, storedScratch, memory, interfaceVars, controlVars, dataVars, scratchVars,
                 stateVars, modelVars, runVars, returned, warned>>

PrepareScratchFromChildren ==
  /\ pc = "idle"
  /\ family # NoFamily
  /\ family.left.how = "prepared" /\ family.right.how = "prepared"
  /\ family' = [family EXCEPT !.parent = prepareScratchFromChildren(family.left, family.right)]
  /\ lastOp' = "prepareScratchFromChildren"
  /\ UNCHANGED <<leaf, storedScratch, memory, interfaceVars, controlVars, dataVars, scratchVars,
                 stateVars, modelVars, runVars, returned, warned>>

SplitNodeCall ==
  \E yv \in MeanResponses, i \in DOMAIN MeanWeights, numLeft \in MeanSplits :
    SplitNode(yv, MeanWeights[i], numLeft)

UpdateMeanScratchWithMembershipsCall ==
  \E node \in {"left", "right", "parent"} : UpdateMeanScratchWithMemberships(node)

PrepareMeanScratchCall ==
  \E node \in {"left", "right", "parent"} : PrepareMeanScratch(node)

\* the sampler with the response and the offset replaced between runs
Next ==
  \/ RunSampler
  \/ IterationBegin
  \/ TreeUpdate
  \/ IterationEnd
  \/ RunSamplerReturn
  \/ SetResponseCall
  \/ SetOffsetCall

Spec == Init /\ [][Next]_vars

\* the sampler with predictors replaced between runs
NextPredictors ==
  \/ RunSampler
  \/ IterationBegin
  \/ TreeUpdate
  \/ IterationEnd
  \/ RunSamplerReturn
  \/ SetPredictorCall
  \/ UpdatePredictorsCall

SpecPredictors == Init /\ [][NextPredictors]_vars

\* the sampler on a fit with or without test observations, the test
\* predictors and the test offset replaced between runs
InitTest ==
  \E c \in Controls, i \in TrainingTestPredictors :
    ConstructWithTest(c, TrainingResponse(c.responseIsBinary), NULL, <<0, 2, 0, 2>>,
                      MaxNumCutsInput, TestPredictors[i].X_test,
                      TestPredictors[i].numTestObservations)

NextTest ==
  \/ RunSampler
  \/ IterationBegin
  \/ TreeUpdate
  \/ IterationEnd
  \/ RunSamplerReturn
  \/ SetTestPredictorCall
  \/ SetTestPredictorAndOffsetCall
  \/ SetTestOffsetCall

SpecTest == InitTest /\ [][NextTest]_vars

(***************************************************************************)
(* runSampler called once on a new fit with so many burn-in iterations     *)
(* that the iteration count comes near the largest value of the loop       *)
(* counter k, or passes it.                                                *)
(***************************************************************************)
LongRunArguments == { <<UINT_MODULUS - 2, 1>>, <<UINT_MODULUS - 1, 1>> }

InitLoop ==
  Construct(CHOOSE c \in Controls : ~c.responseIsBinary /\ ~c.callback,
            TrainingResponse(FALSE), NULL, <<0, 2, 0, 2>>, MaxNumCutsInput)

RunSamplerLong ==
  /\ lastOp = "create"
  /\ \E args \in LongRunArguments : RunSamplerBegin(args[1], args[2])

\* the loop is followed for one iteration more than k has values
IterationBeginLong ==
  /\ numIterations <= UINT_MODULUS
  /\ IterationBegin

NextLoop ==
  \/ RunSamplerLong
  \/ IterationBeginLong
  \/ TreeUpdate
  \/ IterationEnd
  \/ RunSamplerReturn

SpecLoop == InitLoop /\ [][NextLoop]_vars

\* fits created through the R interface and finalized by the collector
InitCreate ==
  Construct(CHOOSE c \in Controls : ~c.responseIsBinary /\ ~c.callback, TrainingResponse(FALSE), NULL, <<0, 2, 0, 2>>, MaxNumCutsInput)

NextCreate ==
  \/ DbartsCreateCall
  \/ FitFinalizerCall

SpecCreate == InitCreate /\ [][NextCreate]_vars

(***************************************************************************)
(* The THREAD_SAFE_UNLOAD build (R_interface.cpp).  The interpreter's      *)
(* thread calls dbarts_create, the entry points and dbarts_finalize; the   *)
(* finalizer of an external pointer runs on another thread, one step at a  *)
(* time, once R can reach the pointer no more.  A fit's address is the     *)
(* number of the external pointer made for it.                             *)
(***************************************************************************)
EntryPoints ==
  {"dbarts_run", "dbarts_setY", "dbarts_createState", "dbarts_storeState",
   "dbarts_restoreState"}

\* the finalizer erases on any answer of the lookup
C27_Mutant_isActive(fitExpr, registry) == TRUE

\* activeFits.find(fitExpr) != activeFits.end()
isActive(fitExpr, registry) == fitExpr \in registry

\* the arguments of a dbarts_create that raises no error
ValidCreateArguments ==
  [controlClass |-> "dbartsControl", modelClass |-> "dbartsModel", dataClass |-> "dbartsData",
   control0 |-> [printEvery |-> 1], data0 |-> [weights |-> 0, offset |-> 0],
   control |-> BaseControl, model |-> BaseModel, data |-> BaseData]

\* the external pointer with no address left
Cleared(addr, fitExpr) == [q \in DOMAIN addr \ {fitExpr} |-> addr[q]]

\* R drops its last reference to an external pointer, or exits
Release(fitExpr) ==
  /\ pc = "idle" /\ finalizePc = "idle"
  /\ reach[fitExpr] = "reachable"
  /\ reach' = [reach EXCEPT ![fitExpr] = "released"]
  /\ lastOp' = "release" /\ returned' = "void"
  /\ UNCHANGED <<activeFits, externalPtrAddr, createCall, file, fitMutex, finalizer,
                 deleteCount, finalizePc, lastPointer, controlVars, dataVars, scratchVars,
                 stateVars, modelVars, runVars, warned, leafVars>>

\* fitFinalizer, first step: the address is read before the mutex is taken
FinalizerRead(fitExpr) ==
  /\ reach[fitExpr] = "released"
  /\ finalizer[fitExpr].pc = "none"
  /\ IF fitExpr \notin DOMAIN externalPtrAddr
     THEN /\ reach' = [reach EXCEPT ![fitExpr] = "none"]
          /\ UNCHANGED finalizer
     ELSE /\ finalizer' = [finalizer EXCEPT ![fitExpr] = [pc |-> "read", fit |-> fitExpr]]
          /\ UNCHANGED reach
  /\ UNCHANGED <<activeFits, externalPtrAddr, createCall, file, fitMutex, deleteCount,
                 finalizePc, lastPointer, controlVars, dataVars, scratchVars, stateVars,
                 modelVars, runVars, lastOp, returned, warned, leafVars>>

\* fitFinalizer, the critical section: lock, find, erase, unlock.  A lock
\* of the mutex dbarts_finalize has destroyed is undefined: the thread goes
\* on, or never leaves the lock
FinalizerErase(fitExpr) ==
  /\ finalizer[fitExpr].pc = "read"
  /\ fitMutex # "dbarts_finalize"
  /\ IF ~isActive(fitExpr, activeFits)
     THEN /\ finalizer' = [finalizer EXCEPT ![fitExpr] = NotFinalizing]
          /\ reach' = [reach EXCEPT ![fitExpr] = "none"]
          /\ UNCHANGED activeFits
     ELSE /\ activeFits' = activeFits \ {fitExpr}
          /\ finalizer' = [finalizer EXCEPT ![fitExpr].pc = "erased"]
          /\ UNCHANGED reach
  /\ UNCHANGED <<externalPtrAddr, createCall, file, fitMutex, deleteCount, finalizePc,
                 lastPointer, controlVars, dataVars, scratchVars, stateVars, modelVars,
                 runVars, lastOp, returned, warned, leafVars>>

\* fitFinalizer: deleteFit on the address read in the first step
FinalizerDelete(fitExpr) ==
  /\ finalizer[fitExpr].pc = "erased"
  /\ deleteCount' = [deleteCount EXCEPT ![finalizer[fitExpr].fit] = @ + 1]
  /\ finalizer' = [finalizer EXCEPT ![fitExpr].pc = "deleted"]
  /\ UNCHANGED <<activeFits, externalPtrAddr, createCall, file, fitMutex, reach, finalizePc,
                 lastPointer, controlVars, dataVars, scratchVars, stateVars, modelVars,
                 runVars, lastOp, returned, warned, leafVars>>

\* fitFinalizer, last step: R_ClearExternalPtr
FinalizerClear(fitExpr) ==
  /\ finalizer[fitExpr].pc = "deleted"
  /\ externalPtrAddr' = Cleared(externalPtrAddr, fitExpr)
  /\ finalizer' = [finalizer EXCEPT ![fitExpr] = NotFinalizing]
  /\ reach' = [reach EXCEPT ![fitExpr] = "none"]
  /\ UNCHANGED <<activeFits, createCall, file, fitMutex, deleteCount, finalizePc,
                 lastPointer, controlVars, dataVars, scratchVars, stateVars, modelVars,
                 runVars, lastOp, returned, warned, leafVars>>

\* dbarts_finalize takes the mutex
FinalizeLock ==
  /\ pc = "idle" /\ finalizePc = "idle"
  /\ fitMutex = "unlocked"
  /\ fitMutex' = "dbarts_finalize"
  /\ finalizePc' = "loop"
  /\ lastOp' = "dbarts_finalize" /\ returned' = "void"
  /\ UNCHANGED <<activeFits, externalPtrAddr, createCall, file, finalizer, deleteCount,
                 reach, lastPointer, controlVars, dataVars, scratchVars, stateVars,
                 modelVars, runVars, warned, leafVars>>

\* dbarts_finalize, one round of its loop: deleteFit, erase and
\* R_ClearExternalPtr on the first entry of activeFits
FinalizeNext ==
  /\ finalizePc = "loop"
  /\ activeFits # {}
  /\ LET fitExpr == CHOOSE q \in activeFits : \A r \in activeFits : q <= r
     IN  /\ deleteCount' = [deleteCount EXCEPT ![fitExpr] = @ + 1]
         /\ activeFits' = activeFits \ {fitExpr}
         /\ externalPtrAddr' = Cleared(externalPtrAddr, fitExpr)
  /\ UNCHANGED <<createCall, file, fitMutex, finalizer, reach, finalizePc, lastPointer,
                 controlVars, dataVars, scratchVars, stateVars, modelVars, runVars, lastOp,
                 returned, warned, leafVars>>

\* dbarts_finalize: the loop is over, the mutex is released
FinalizeUnlock ==
  /\ finalizePc = "loop"
  /\ activeFits = {}
  /\ fitMutex' = "unlocked"
  /\ finalizePc' = "unlocked"
  /\ UNCHANGED <<activeFits, externalPtrAddr, createCall, file, finalizer, deleteCount,
                 reach, lastPointer, controlVars, dataVars, scratchVars, stateVars,
                 modelVars, runVars, lastOp, returned, warned, leafVars>>

\* dbarts_finalize, last step: pthread_mutex_destroy
FinalizeDestroy ==
  /\ finalizePc = "unlocked"
  /\ fitMutex' = "destroyed"
  /\ finalizePc' = "idle"
  /\ UNCHANGED <<activeFits, externalPtrAddr, createCall, file, finalizer, deleteCount,
                 reach, lastPointer, controlVars, dataVars, scratchVars, stateVars,
                 modelVars, runVars, lastOp, returned, warned, leafVars>>

\* dbarts_isValidPointer on an external pointer R holds
IsValidPointer(fitExpr) ==
  /\ pc = "idle" /\ finalizePc = "idle"
  /\ reach[fitExpr] = "reachable"
  /\ fitExpr \in DOMAIN externalPtrAddr => fitMutex = "unlocked"
  /\ lastOp' = "dbarts_isValidPointer"
  /\ lastPointer' = fitExpr
  /\ returned' = IF fitExpr \notin DOMAIN externalPtrAddr THEN "FALSE"
                 ELSE IF isActive(fitExpr, activeFits) THEN "TRUE" ELSE "FALSE"
  /\ UNCHANGED <<activeFits, externalPtrAddr, createCall, file, fitMutex, finalizer,
                 deleteCount, reach, finalizePc, controlVars, dataVars, scratchVars,
                 stateVars, modelVars, runVars, warned, leafVars>>

\* an entry point up to its first use of the fit: the address is read and
\* compared with NULL; the fit it then dereferences is live or was deleted
EntryPoint(name, fitExpr) ==
  /\ pc = "idle" /\ finalizePc = "idle"
  /\ reach[fitExpr] = "reachable"
  /\ lastOp' = name
  /\ lastPointer' = fitExpr
  /\ returned' = IF fitExpr \notin DOMAIN externalPtrAddr THEN "error"
                 ELSE IF deleteCount[fitExpr] > 0 THEN "use after free"
                 ELSE "fit"
  /\ UNCHANGED <<activeFits, externalPtrAddr, createCall, file, fitMutex, finalizer,
                 deleteCount, reach, finalizePc, controlVars, dataVars, scratchVars,
                 stateVars, modelVars, runVars, warned, leafVars>>

CreateValidCall == DbartsCreate(ValidCreateArguments)
ReleaseCall == \E fitExpr \in 1..MaxFits : Release(fitExpr)
FinalizerReadStep == \E fitExpr \in 1..MaxFits : FinalizerRead(fitExpr)
FinalizerEraseStep == \E fitExpr \in 1..MaxFits : FinalizerErase(fitExpr)
FinalizerDeleteStep == \E fitExpr \in 1..MaxFits : FinalizerDelete(fitExpr)
FinalizerClearStep == \E fitExpr \in 1..MaxFits : FinalizerClear(fitExpr)
IsValidPointerCall == \E fitExpr \in 1..MaxFits : IsValidPointer(fitExpr)
EntryPointCall == \E name \in EntryPoints, fitExpr \in 1..MaxFits : EntryPoint(name, fitExpr)

NextUnload ==
  \/ CreateValidCall
  \/ ReleaseCall
  \/ FinalizerReadStep
  \/ FinalizerEraseStep
  \/ FinalizerDeleteStep
  \/ FinalizerClearStep
  \/ FinalizeLock
  \/ FinalizeNext
  \/ FinalizeUnlock
  \/ FinalizeDestroy
  \/ IsValidPointerCall
  \/ EntryPointCall

SpecUnload == InitCreate /\ [][NextUnload]_vars

(***************************************************************************)
(* The linear-regression leaf scratch under every order of calls           *)
(* (endNodeModel.cpp): no call waits for another one to have been made,    *)
(* but restoreScratch for a storeScratch.                                  *)
(* A call is made while the free store has room for the arrays it may      *)
(* allocate, and none is made after a buffer was freed twice.  new takes   *)
(* the lowest free address; which one that is depends on what the rest of  *)
(* the program holds.                                                      *)
(***************************************************************************)
\* the addresses not in use
FreeBuffers(m) == { a \in 3..MaxBuffers : ~m.cells[a].live }
\* the addresses in use stay below this one
MaxAddress == 8
\* no buffer was freed twice, and the free store has room for n arrays
Room(n) ==
  /\ memory.misuse = "none"
  /\ Cardinality({ a \in FreeBuffers(memory) : a <= MaxAddress }) >= n

\* LinearRegressionNormal::destroyScratch
destroyScratch(m, s) ==
  LET m1 == Deleted(Deleted(m, s.coefficients), s.posteriorCovarianceRightFactor)
      own == s.Xt # MODEL_XT
  IN  [memory |-> IF own THEN Deleted(Deleted(m1, s.Xt), s.y) ELSE m1,
       scratch |-> [posteriorCovarianceRightFactor |-> 0, coefficients |-> 0,
                    y |-> IF own THEN 0 ELSE s.y, Xt |-> IF own THEN 0 ELSE s.Xt]]

\* a pointer of the scratch that addresses a freed buffer
Dangling(m, s) ==
  { f \in {"posteriorCovarianceRightFactor", "coefficients", "y", "Xt"} :
      Contents(m, s[f]) = -2 }

CreateScratchAnyTime(isTop) ==
  /\ pc = "idle" /\ Room(2)
  /\ leaf = NoLeaf
  /\ LET r == createScratch(memory, 0, 0)
     IN  /\ leaf' = [kind |-> "LinearRegressionNormal", isTop |-> isTop, phase |-> "created",
                     scratch |-> r.scratch]
         /\ memory' = r.memory
  /\ lastOp' = "createScratch"
  /\ UNCHANGED <<family, storedScratch, interfaceVars, controlVars, dataVars, scratchVars,
                 stateVars, modelVars, runVars, returned, warned>>

UpdateScratchAnyTime ==
  /\ pc = "idle" /\ Room(1)
  /\ leaf # NoLeaf /\ leaf.kind # "destroyed"
  /\ LET r == updateScratchWithMemberships(memory, leaf.scratch, leaf.isTop, 0, 0)
     IN  /\ leaf' = [leaf EXCEPT !.scratch = r.scratch, !.phase = "updated"]
         /\ memory' = r.memory
  /\ lastOp' = "updateScratchWithMemberships"
  /\ UNCHANGED <<family, storedScratch, interfaceVars, controlVars, dataVars, scratchVars,
                 stateVars, modelVars, runVars, returned, warned>>

PrepareScratchAnyTime ==
  /\ pc = "idle" /\ Room(1)
  /\ leaf # NoLeaf /\ leaf.kind # "destroyed"
  /\ LET r == prepareScratch(memory, leaf.scratch, leaf.isTop, 0, 0)
     IN  /\ leaf' = [leaf EXCEPT !.scratch = r.scratch, !.phase = "prepared"]
         /\ memory' = r.memory
  /\ lastOp' = "prepareScratch"
  /\ UNCHANGED <<family, storedScratch, interfaceVars, controlVars, dataVars, scratchVars,
                 stateVars, modelVars, runVars, returned, warned>>

\* storeScratch into the target, whatever the target held
StoreScratchAnyTime ==
  /\ pc = "idle" /\ Room(IF leaf # NoLeaf /\ leaf.scratch.Xt # MODEL_XT THEN 4 ELSE 2)
  /\ leaf # NoLeaf /\ leaf.kind # "destroyed"
  /\ LET r == storeScratch(memory, leaf.scratch)
     IN  /\ storedScratch' = [kind |-> leaf.kind, scratch |-> r.scratch,
                              contents |-> ScratchContents(memory, leaf.scratch)]
         /\ memory' = r.memory
  /\ lastOp' = "storeScratch"
  /\ UNCHANGED <<family, leaf, interfaceVars, controlVars, dataVars, scratchVars, stateVars,
                 modelVars, runVars, returned, warned>>

\* restoreScratch from the target of the last storeScratch; it hands the
\* arrays of the copy to the node, and a copy is restored from once
RestoreScratchAnyTime ==
  /\ pc = "idle" /\ Room(0)
  /\ leaf # NoLeaf /\ leaf.kind # "destroyed"
  /\ storedScratch # NoLeaf
  /\ storedScratch.kind # "spent"
  /\ LET r == restoreScratch(memory, storedScratch.scratch, leaf.scratch)
     IN  /\ leaf' = [leaf EXCEPT !.scratch = r.scratch, !.phase = "prepared"]
         /\ memory' = r.memory
  /\ storedScratch' = [storedScratch EXCEPT !.kind = "spent"]
  /\ lastOp' = "restoreScratch"
  /\ UNCHANGED <<family, interfaceVars, controlVars, dataVars, scratchVars, stateVars,
                 modelVars, runVars, returned, warned>>

\* destroyScratch; the node is gone
DestroyScratch ==
  /\ pc = "idle" /\ Room(0)
  /\ leaf # NoLeaf /\ leaf.kind # "destroyed"
  /\ memory' = destroyScratch(memory, leaf.scratch).memory
  /\ leaf' = [leaf EXCEPT !.kind = "destroyed",
                          !.scratch = destroyScratch(memory, leaf.scratch).scratch]
  /\ lastOp' = "destroyScratch"
  /\ UNCHANGED <<family, storedScratch, interfaceVars, controlVars, dataVars, scratchVars,
                 stateVars, modelVars, runVars, returned, warned>>

\* the rest of the program allocates an array of its own from the same
\* free store, and deletes it later
OtherNew ==
  /\ pc = "idle" /\ Room(1)
  /\ memory.other = 0
  /\ memory' = [Allocated(memory, NewBuffer(memory), 0) EXCEPT !.other = NewBuffer(memory)]
  /\ lastOp' = "new"
  /\ UNCHANGED <<family, leaf, storedScratch, interfaceVars, controlVars, dataVars,
                 scratchVars, stateVars, modelVars, runVars, returned, warned>>

OtherDelete ==
  /\ pc = "idle" /\ Room(0)
  /\ memory.other # 0
  /\ memory' = [Deleted(memory, memory.other) EXCEPT !.other = 0]
  /\ lastOp' = "delete"
  /\ UNCHANGED <<family, leaf, storedScratch, interfaceVars, controlVars, dataVars,
                 scratchVars, stateVars, modelVars, runVars, returned, warned>>

CreateScratchAnyTimeCall == \E isTop \in BOOLEAN : CreateScratchAnyTime(isTop)

NextScratchAnyOrder ==
  \/ CreateScratchAnyTimeCall
  \/ UpdateScratchAnyTime
  \/ PrepareScratchAnyTime
  \/ StoreScratchAnyTime
  \/ RestoreScratchAnyTime
  \/ DestroyScratch
  \/ OtherNew
  \/ OtherDelete

SpecScratchAnyOrder == InitCreate /\ [][NextScratchAnyOrder]_vars

(***************************************************************************)
(* dbarts_run (R_interface.cpp).  One fit is created through the           *)
(* interface before the first run; the sampler variables hold its state,   *)
(* externalPtrAddr its control as dbarts_create initialized it.  An        *)
(* integer argument is the vector of its elements.                         *)
(***************************************************************************)
RunExpressions == { << >>, <<NA_INTEGER>>, <<-1>>, <<0>>, <<1>>, <<MaxSamples, 0>> }

\* the positive check of the number of samples left out
C29_Mutant_dbartsRunError(numBurnInExpr, numSamplesExpr) ==
  IF Len(numBurnInExpr) = 0 THEN "Number of burn-in steps must be of length at least 1."
  ELSE IF numBurnInExpr[1] # NA_INTEGER /\ numBurnInExpr[1] < 0
  THEN "Number of burn-in steps must be non-negative."
  ELSE IF Len(numSamplesExpr) = 0 THEN "Number of samples must be of length at least 1."
  ELSE "none"

\* the error dbarts_run raises on its arguments, "none" if it raises none
dbartsRunError(numBurnInExpr, numSamplesExpr) ==
  IF Len(numBurnInExpr) = 0 THEN "Number of burn-in steps must be of length at least 1."
  ELSE IF numBurnInExpr[1] # NA_INTEGER /\ numBurnInExpr[1] < 0
  THEN "Number of burn-in steps must be non-negative."
  ELSE IF Len(numSamplesExpr) = 0 THEN "Number of samples must be of length at least 1."
  ELSE IF numSamplesExpr[1] # NA_INTEGER /\ numSamplesExpr[1] <= 0
  THEN "Number of samples must be positive."
  ELSE "none"

\* i_temp == NA_INTEGER ? the fit's control : (size_t) i_temp
RunArgument(i_temp, fromControl) == IF i_temp = NA_INTEGER THEN fromControl ELSE i_temp

\* dbarts_run up to its call of runSampler
DbartsRun(fitExpr, numBurnInExpr, numSamplesExpr) ==
  /\ pc = "idle"
  /\ IF fitExpr \notin DOMAIN externalPtrAddr
        \/ dbartsRunError(numBurnInExpr, numSamplesExpr) # "none"
     THEN /\ lastOp' = "dbarts_run" /\ returned' = "error"
          /\ lastPointer' = fitExpr
          /\ warned' = FALSE
          /\ UNCHANGED <<activeFits, externalPtrAddr, createCall, file, fitMutex, finalizer,
                         deleteCount, reach, finalizePc, leafVars, controlVars, dataVars,
                         scratchVars, stateVars, modelVars>>
          /\ RunForgotten
     ELSE LET fit == externalPtrAddr[fitExpr]
          IN  RunSamplerFrom(RunArgument(numBurnInExpr[1], fit.control.numBurnIn),
                             RunArgument(numSamplesExpr[1], fit.control.numSamples), fitExpr)

\* dbarts_run after runSampler has returned: the Results are read through
\* the pointer it returned and copied into the list
DbartsRunReturn ==
  /\ pc = "idle"
  /\ lastOp = "runSampler" /\ lastPointer # 0
  /\ lastOp' = "dbarts_run"
  /\ returned' = IF returned = "NULL" THEN "null dereference" ELSE "list"
  /\ UNCHANGED <<leafVars, interfaceVars, controlVars, dataVars, scratchVars, stateVars,
                 modelVars, runVars, warned>>

\* the controls of the fits: valid ones with one or two samples and with or
\* without burn-in, and one dbarts_create rejects
RunControlExpressions ==
  { BaseControl, [BaseControl EXCEPT !.n_samples = 1, !.n_burn = 0],
    [BaseControl EXCEPT !.n_samples = 0] }

CreateForRun ==
  /\ activeFits = {}
  /\ lastOp \in {"create", "dbarts_create"}
  /\ \E c \in RunControlExpressions : DbartsCreate([ValidCreateArguments EXCEPT !.control = c])

DbartsRunCall ==
  \E fitExpr \in 1..MaxFits, numBurnInExpr \in RunExpressions, numSamplesExpr \in RunExpressions :
    DbartsRun(fitExpr, numBurnInExpr, numSamplesExpr)

\* runSampler called on the fit without the interface
RunSamplerDirect ==
  /\ lastOp = "runSampler" => lastPointer = 0
  /\ RunSampler

NextRun ==
  \/ CreateForRun
  \/ DbartsRunCall
  \/ DbartsRunReturn
  \/ RunSamplerDirect
  \/ IterationBegin
  \/ TreeUpdate
  \/ IterationEnd
  \/ RunSamplerReturn

SpecRun == InitCreate /\ [][NextRun]_vars

\* a fit saved to a file between replacements of its response and offset
NextSave ==
  \/ SetResponseCall
  \/ SetOffsetCall
  \/ SaveToFileCall

SpecSave == Init /\ [][NextSave]_vars

\* fits of one or two observations whose response and offset are replaced
InitRescale ==
  \E c \in Controls, dataY \in RescaleResponses :
    Construct(c, IF c.responseIsBinary THEN TrainingResponse(TRUE) ELSE dataY, NULL,
              IF ~c.responseIsBinary /\ Len(dataY) = 1 THEN <<0, 0>> ELSE <<0, 2, 0, 2>>,
              MaxNumCutsInput)

SetResponseRescaleCall ==
  \E newY \in (IF control.responseIsBinary THEN BinaryResponses ELSE RescaleResponses) :
    Len(newY) = numObservations /\ SetResponse(newY)

SetOffsetRescaleCall ==
  \/ SetOffset(NULL)
  \/ \E newOffset \in RescaleOffsets : Len(newOffset) = numObservations /\ SetOffset(newOffset)

NextRescale ==
  \/ SetResponseRescaleCall
  \/ SetOffsetRescaleCall

SpecRescale == InitRescale /\ [][NextRescale]_vars

\* fits of four observations whose predictors are replaced
InitCuts ==
  \E c \in Controls, dataX \in CutsPredictors, maxCuts \in CutsMaxNumCuts :
    Construct(c, CutsResponse(c.responseIsBinary), NULL, dataX, maxCuts)

SetPredictorCutsCall == \E newPredictor \in CutsPredictors : SetPredictor(newPredictor)

UpdatePredictorsCutsCall ==
  \E u \in CutsUpdateInputs : UpdatePredictors(u.newPredictor, u.columns)

NextCuts ==
  \/ SetPredictorCutsCall
  \/ UpdatePredictorsCutsCall

SpecCuts == InitCuts /\ [][NextCuts]_vars

\* one leaf whose scratch is updated, stored and restored
NextScratch ==
  \/ CreateLeafCall
  \/ UpdateScratchWithMemberships
  \/ PrepareScratch
  \/ DrawFromPosterior
  \/ StoreScratch
  \/ RestoreScratch
  \/ ForgetStored

SpecScratch == InitCreate /\ [][NextScratch]_vars

\* a parent and its two children prepared in any order
NextMean ==
  \/ SplitNodeCall
  \/ UpdateMeanScratchWithMembershipsCall
  \/ PrepareMeanScratchCall
  \/ PrepareScratchFromChildren

SpecMean == InitCreate /\ [][NextMean]_vars

(***************************************************************************)
(* Properties.                                                             *)
(***************************************************************************)
RECURSIVE SumOverTrees(_, _, _)
SumOverTrees(fits, i, t) ==
  IF t = 0 THEN R(0) ELSE RAdd(SumOverTrees(fits, i, t - 1), fits[t][i])

\* a runSampler call has returned and nothing was called since
RunSamplerReturned == lastOp = "runSampler" /\ pc = "idle" /\ returned # "running"

\* C1: totalFits[i] is the sum over the trees of treeFits[t][i], for every
\* training observation i, in every state: after construction, after each
\* tree's update in runSampler, at its return, and after setPredictor and
\* updatePredictors whatever they return.
C1_TotalFitsIsSumOfTreeFits ==
  \A i \in 1..numObservations : totalFits[i] = SumOverTrees(treeFits, i, NumTrees)

\* a predictor replacement has ended, true or false, on trees that split and
\* whose fits are not all zero
C1_Witness ==
  /\ lastOp \in {"setPredictor", "updatePredictors"}
  /\ returned \in {"true", "false"}
  /\ \E t \in 1..NumTrees : trees[t].hasRule /\ treeFits[t][1] # treeFits[t][2]
  /\ \E i \in 1..numObservations : totalFits[i] # R(0)

TreesInOrder(log, count) ==
  /\ Len(log) >= count
  /\ \A i \in 1..count : log[i] = <<"tree", i - 1>>

\* C2: runSampler performs exactly (numBurnIn + numSamples) * treeThinningRate
\* iterations; within an iteration the trees are updated in the order 0, 1,
\* ..., numTrees - 1, each update complete (totalFits written) before the
\* next starts, and all of them before the iteration's draw and the next
\* iteration.
C2_IterationsAndTreeOrder ==
  /\ pc = "sweep" => /\ treeNum <= NumTrees
                     /\ Len(iterationLog) = treeNum
                     /\ TreesInOrder(iterationLog, treeNum)
  /\ (pc = "loop" /\ numIterations > 0) =>
        /\ TreesInOrder(iterationLog, NumTrees)
        /\ \A i \in (NumTrees + 1)..Len(iterationLog) : iterationLog[i][1] # "tree"
  /\ pc \in {"loop", "sweep"} => numIterations = k /\ k <= totalNumIterations
  /\ RunSamplerReturned =>
        numIterations = (numBurnIn + numSamples) * control.treeThinningRate

\* a run with burn-in, several samples and thinning has returned
C2_Witness ==
  /\ RunSamplerReturned
  /\ numBurnIn = MaxBurnIn /\ numSamples = MaxSamples
  /\ control.treeThinningRate = MaxThin
  /\ numIterations = (MaxBurnIn + MaxSamples) * MaxThin

\* everything but column col (1-based) of the buffers is as it was
OtherColumnsKept(before, after, col) ==
  /\ after.numSamples = before.numSamples
  /\ after.outOfBounds = before.outOfBounds
  /\ \A j \in 1..before.numSamples :
       j # col => /\ after.sigmaSamples[j] = before.sigmaSamples[j]
                  /\ after.trainingSamples[j] = before.trainingSamples[j]
                  /\ after.testSamples[j] = before.testSamples[j]
                  /\ after.variableCountSamples[j] = before.variableCountSamples[j]
                  /\ after.written[j] = before.written[j]

\* an iteration of runSampler ends in this step
IterationEnds == pc = "sweep" /\ pc' = "loop"

\* C3 (as the code has it): a thinning iteration writes nothing to the
\* result buffers; a non-thinning iteration still in burn-in writes its sample
\* to column 0 and to no other column; a non-thinning iteration past burn-in
\* writes column majorIterationNum - numBurnIn and no other; the tree
\* updates write none.
C3_BurnInWritesOnlyColumnZero ==
  [][/\ pc' = "sweep" => results' = results
     /\ IterationEnds =>
          LET thin == control.treeThinningRate
              major == k \div thin
          IN  IF (k + 1) % thin # 0 THEN results' = results
              ELSE IF major < numBurnIn
                   THEN /\ OtherColumnsKept(results, results', 1)
                        /\ results'.written[1]
                   ELSE /\ OtherColumnsKept(results, results', major - numBurnIn + 1)
                        /\ results'.written[major - numBurnIn + 1]]_vars

\* a burn-in iteration has just stored its sample in column 0
C3_Witness ==
  /\ pc = "loop" /\ numIterations > 0
  /\ ~isThinningIteration /\ majorIterationNum < numBurnIn
  /\ results.written[1]
  /\ numSamples >= 1

\* C3 as stated: an iteration that is a thinning one or still in burn-in
\* leaves the result buffers as they were.
C3_NothingWrittenDuringBurnIn ==
  [][(IterationEnds /\ ((k + 1) % control.treeThinningRate # 0
                        \/ k \div control.treeThinningRate < numBurnIn))
       => results' = results]_vars

\* C4: for numSamples >= 1 the j-th non-thinning iteration past burn-in
\* stores the state it ends with in column j, no column >= numSamples is
\* written, and at the return column j holds what iteration
\* (numBurnIn + j + 1) * treeThinningRate stored.
C4_SampleColumns ==
  LET thin == control.treeThinningRate
      j == k \div thin - 1 - numBurnIn
  IN  /\ (pc \in {"loop", "sweep"} /\ numSamples >= 1) => ~results.outOfBounds
      /\ (pc = "loop" /\ numSamples >= 1 /\ k > 0 /\ k % thin = 0 /\ j >= 0) =>
            /\ j < numSamples
            /\ \E i \in DOMAIN iterationLog : iterationLog[i] = <<"store", j>>
            /\ sampleIteration[j + 1] = k
            /\ results.sigmaSamples[j + 1] =
                 StoredSigma(control.responseIsBinary, sigma, dataScale.range)
            /\ results.variableCountSamples[j + 1] = countVariableUses(trees, numPredictors)
      /\ (RunSamplerReturned /\ numSamples >= 1) =>
            /\ ~results.outOfBounds
            /\ \A c \in 0..(numSamples - 1) :
                 /\ sampleIteration[c + 1] = (numBurnIn + c + 1) * thin
                 /\ results.written[c + 1]

\* a thinned run with burn-in has returned all of its samples
C4_Witness ==
  /\ RunSamplerReturned
  /\ numBurnIn = MaxBurnIn /\ numSamples = MaxSamples
  /\ control.treeThinningRate = MaxThin
  /\ sampleIteration[MaxSamples] = (MaxBurnIn + MaxSamples) * MaxThin
  /\ sampleIteration[1] = (MaxBurnIn + 1) * MaxThin

\* C5: with a callback configured, every non-thinning iteration invokes it
\* once and no thinning iteration does; the call follows the store of that
\* iteration's sample and ends the iteration, and it is handed the column
\* just written and that column's sigma.
C5_CallbackPerNonThinningIteration ==
  LET thin == control.treeThinningRate
      len == Len(iterationLog)
  IN  control.callback =>
        /\ pc \in {"loop", "sweep"} => numCallbacks = k \div thin
        /\ pc = "sweep" => \A i \in 1..len : iterationLog[i] # <<"callback">>
        /\ (pc = "loop" /\ k > 0) =>
             IF k % thin = 0
             THEN /\ len >= 2
                  /\ iterationLog[len] = <<"callback">>
                  /\ iterationLog[len - 1][1] = "store"
                  /\ \A i \in 1..(len - 1) : iterationLog[i] # <<"callback">>
                  /\ LET column == iterationLog[len - 1][2]
                     IN  /\ callbackArgs.trainingSamples = column * numObservations
                         /\ callbackArgs.testSamples = column * numTestObservations
                         /\ callbackArgs.sigma = results.sigmaSamples[column + 1]
                         /\ results.written[column + 1]
             ELSE \A i \in 1..len : iterationLog[i] # <<"callback">>

\* the callback has been handed the second column
C5_Witness ==
  /\ control.callback /\ pc = "loop" /\ k > 0
  /\ numCallbacks >= 2
  /\ callbackArgs.trainingSamples = numObservations
  /\ control.treeThinningRate = MaxThin

\* tree t of ts, updated with the covariates Mt and the cut points cuts, has
\* a leaf without observations
InvalidUnder(ts, t, Mt, cuts) ==
  ~isValid(updateWithNewCovariates(ts[t], Mt, cuts, numObservations, numPredictors))

C7_SetPredictorFalseKeepsState ==
  [][(lastOp' = "setPredictor" /\ returned' = "false") =>
       /\ X' = X /\ Xt' = Xt /\ cutPoints' = cutPoints
       /\ \A t \in 1..NumTrees : trees'[t].leafOf = trees[t].leafOf]_vars

\* the cut points setCutPoints computes for column col (0-based) from the
\* values of that column in the matrix M
CutPointsFrom(M, col) ==
  LET x == ColumnOf(M, numObservations, col)
  IN  IF control.useQuantiles
      THEN setCutPointsFromQuantiles(x, At(maxNumCuts, col), At(numCutsPerVariable, col),
                                     At(cutPoints, col)).cutPoints
      ELSE setCutPointsUniformly(x, At(maxNumCuts, col), At(numCutsPerVariable, col),
                                 At(cutPoints, col)).cutPoints

\* C8: after a setPredictor or updatePredictors that returns true, the cut
\* points of every replaced column are the first numCuts[j] cut points of
\* the new values of that column.
C8_CutPointsFromNewColumns ==
  [][/\ (lastOp' = "setPredictor" /\ returned' = "true") =>
          \A col \in 0..(numPredictors - 1) : At(cutPoints', col) = CutPointsFrom(X', col)
     /\ \A u \in UpdateInputs :
          (UpdatePredictors(u.newPredictor, u.columns) /\ returned' = "true") =>
            \A i \in DOMAIN u.columns :
              At(cutPoints', u.columns[i]) = CutPointsFrom(X', u.columns[i])]_vars

\* C9: in quantile mode a replacement column that induces fewer cut points
\* than the column has ends in the fatal error, one that induces more only
\* warns, and in both modes numCutsPerVariable is never written again.
C9_FewerCutsIsFatal ==
  [][/\ \A u \in UpdateInputs :
          (UpdatePredictors(u.newPredictor, u.columns) /\ control.useQuantiles
             /\ Len(u.columns) = 1) =>
            LET col == u.columns[1]
                induced == InducedNumCuts(u.newPredictor, At(maxNumCuts, col))
            IN  /\ induced < At(numCutsPerVariable, col) => returned' = "error"
                /\ induced > At(numCutsPerVariable, col) => (warned' /\ returned' # "error")
     /\ numCutsPerVariable' = numCutsPerVariable]_vars

\* C10: with a binary response sigma is 1 in every state, runSampler never
\* draws sigma, and every sigma sample stored is 1.
C10_BinarySigmaIsOne ==
  control.responseIsBinary =>
    /\ sigma = R(1)
    /\ \A i \in DOMAIN iterationLog : iterationLog[i] # <<"sigma">>
    /\ \A j \in 1..results.numSamples : results.written[j] => results.sigmaSamples[j] = R(1)

\* a binary fit whose response and offset were replaced has run and
\* returned its samples
C10_Witness ==
  /\ control.responseIsBinary /\ RunSamplerReturned
  /\ y # TrainingResponse(TRUE) /\ offset # NULL
  /\ numSamples = MaxSamples
  /\ \A j \in 1..MaxSamples : results.written[j] /\ results.sigmaSamples[j] = R(1)

\* the truncation bound of latent i: -offset[i], 0 without an offset
LatentBound(i) == IF offset # NULL THEN R(-offset[i]) ELSE R(0)

\* C11: with a binary response every latent lies on the side of its bound
\* that y gives it, z[i] >= -offset[i] when y[i] > 0 and z[i] <= -offset[i]
\* otherwise, after every resampling (the end of an iteration, setResponse,
\* setOffset); the latents a fit is created with are 2 * y - 1 - offset,
\* which lie on that side too.
C11_LatentsOnTheSideOfY ==
  control.responseIsBinary =>
    /\ \A i \in 1..numObservations :
         IF y[i] > 0 THEN RLeq(LatentBound(i), yRescaled[i])
         ELSE RLeq(yRescaled[i], LatentBound(i))
    /\ lastOp = "create" =>
         \A i \in 1..numObservations :
           yRescaled[i] = RSub(R(2 * y[i] - 1), RNeg(LatentBound(i)))

\* latents resampled by an iteration under an offset, away from the values
\* the fit was created with
C11_Witness ==
  /\ control.responseIsBinary /\ offset # NULL
  /\ lastOp = "runSampler" /\ pc = "loop" /\ numIterations > 0
  /\ \E i \in 1..numObservations : offset[i] # 0 /\ yRescaled[i] # R(2 * y[i] - 1 - offset[i])

\* C12: the test buffers exist exactly when there are test observations:
\* after construction and after every setTestPredictor and
\* setTestPredictorAndOffset call, Xt_test and totalTestFits are allocated,
\* with numTestObservations * numPredictors and numTestObservations
\* elements, iff numTestObservations > 0; and a call with no rows or a NULL
\* X_test frees both and sets numTestObservations to 0.
C12_TestBuffersIffTestObservations ==
  /\ numTestObservations > 0 =>
       /\ Xt_test # NULL /\ Len(Xt_test) = numTestObservations * numPredictors
       /\ totalTestFits # NULL /\ Len(totalTestFits) = numTestObservations
  /\ numTestObservations = 0 => Xt_test = NULL /\ totalTestFits = NULL
  /\ (/\ lastOp \in {"setTestPredictor", "setTestPredictorAndOffset"}
      /\ X_test = NULL) =>
       numTestObservations = 0 /\ Xt_test = NULL /\ totalTestFits = NULL

\* after a run, a call without test rows on a fit whose trees split
C12_Witness ==
  /\ lastOp = "setTestPredictorAndOffset"
  /\ numTestObservations = 0 /\ totalTestFits = NULL /\ Xt_test = NULL /\ X_test = NULL
  /\ \E t \in 1..NumTrees : trees[t].hasRule

\* the sum over the trees of each tree's current test fits
SumOfTestFits == updateTestFits(trees, Xt_test, cutPoints, numTestObservations, numPredictors)

\* an iteration of runSampler has just ended
IterationEnded == lastOp = "runSampler" /\ pc = "loop" /\ numIterations > 0

\* C13: with test observations, at the end of every non-thinning iteration
\* of runSampler, and so at its return, totalTestFits is the sum over the
\* trees of each tree's current test fits.
C13_TestFitsAfterNonThinningIteration ==
  numTestObservations > 0 =>
    /\ IterationEnded /\ ~isThinningIteration => totalTestFits = SumOfTestFits
    /\ RunSamplerReturned /\ numIterations > 0 => totalTestFits = SumOfTestFits

\* a non-thinning iteration of a thinned run has ended with test fits that
\* differ between the test rows
C13_Witness ==
  /\ IterationEnded /\ ~isThinningIteration /\ control.treeThinningRate > 1
  /\ numTestObservations = 2
  /\ totalTestFits[1] # totalTestFits[2] /\ totalTestFits[1] # R(0)

\* C13 as stated: at the end of every iteration, thinning or not,
\* totalTestFits is the sum over the trees of each tree's current test fits.
C13_TestFitsAfterEveryIteration ==
  numTestObservations > 0 /\ IterationEnded => totalTestFits = SumOfTestFits

\* the three proposal probabilities of the arguments a are off 1 by 1e-10 or more
SumOffOne(a) ==
  LET s == RealSum3(a.model.p_birth_death, a.model.p_swap, a.model.p_change)
  IN  \/ a.model.p_birth_death.nan \/ a.model.p_swap.nan \/ a.model.p_change.nan
      \/ s.fourths # 4 \/ Abs(s.e11) >= TOLERANCE_E11

\* C14: dbarts_create on arguments whose birthOrDeath, swap and change
\* probabilities do not sum to 1 within 1e-10 raises an error; and whenever
\* dbarts_create raises an error, for this or any other reason, no BARTFit
\* is constructed and the registry of active fits is unchanged.
C14_CreateErrorLeavesNoFit ==
  [][\A a \in CreateArguments :
       DbartsCreate(a) =>
         /\ SumOffOne(a) => returned' = "error"
         /\ returned' = "error" =>
              activeFits' = activeFits /\ externalPtrAddr' = externalPtrAddr]_vars

\* with a fit registered, a create call whose probabilities are each in
\* range and sum to 1 + 1e-10 has raised an error
C14_Witness ==
  /\ lastOp = "dbarts_create" /\ returned = "error"
  /\ activeFits # {}
  /\ createCall.control = BaseControl /\ createCall.data = BaseData
  /\ createCall.model.p_birth_death = Real(2, 5) /\ createCall.model.p_change = Real(1, 5)

\* C15: every fit dbarts_create has constructed has numSamples >= 1,
\* numBurnIn >= 0, numTrees >= 1, numThreads >= 1, treeThinningRate >= 1,
\* printEvery > 0 and printCutoffs >= 0.
C15_ControlWithinRanges ==
  \A fitExpr \in DOMAIN externalPtrAddr :
    LET c == externalPtrAddr[fitExpr].control
    IN  /\ c.numSamples >= 1 /\ c.numBurnIn >= 0 /\ c.numTrees >= 1 /\ c.numThreads >= 1
        /\ c.treeThinningRate >= 1
        /\ c.printEvery > 0 /\ c.printCutoffs >= 0

\* C16: saveToFile returns false whenever the open or a write fails; when
\* a write fails after the open succeeded the file is unlinked; and whatever
\* the outcome the prior scale of the response model is the one before the
\* call.
C16_SaveToFileRestoresScale ==
  [][\A failure \in 0..(NumSections + 1) :
       SaveToFile(failure) =>
         /\ failure <= NumSections => returned' = "false"
         /\ failure \in 1..NumSections => ~file'.exists
         /\ scale' = scale]_vars

\* a save of a continuous fit failed after the model section was written
\* with a prior scale that is not the fit's
C16_Witness ==
  /\ lastOp = "saveToFile" /\ returned = "false"
  /\ ~file.exists /\ file.unlinked /\ file.sections >= 3
  /\ file.scale # scale

\* the ratio oldRange / newRange squared
RangeRatioSquared == LET r == RDiv(dataScale.range, dataScale'.range) IN RMul(r, r)

\* C17: for a continuous response, setResponse and setOffset keep sigma *
\* range, and scale the prior scale by (oldRange / newRange)^2; setResponse
\* with the current y leaves yRescaled, the scale triple, sigma and the
\* prior scale unchanged.
C17_UnscaledQuantitiesPreserved ==
  [][(~control.responseIsBinary /\ lastOp' \in {"setResponse", "setOffset"}) =>
       /\ RMul(sigma', dataScale'.range) = RMul(sigma, dataScale.range)
       /\ scale' = RMul(scale, RangeRatioSquared)
       /\ (lastOp' = "setResponse" /\ y' = y) =>
            /\ yRescaled' = yRescaled /\ dataScale' = dataScale
            /\ sigma' = sigma /\ scale' = scale]_vars

\* the response less the offset
ShiftedResponse == IF offset # NULL THEN VecSub(VecR(y), VecR(offset)) ELSE VecR(y)

\* C19: for a continuous response (min, max, range) are the minimum, the
\* maximum and their difference of y - offset; when the values are not all
\* equal yRescaled[i] = (y[i] - offset[i] - min) / range - 0.5, which lies in
\* [-0.5, 0.5], is -0.5 at the minimum and 0.5 at the maximum; and when
\* they are all equal (range = 0, as with a single observation) every
\* yRescaled[i] is still a number in [-0.5, 0.5].
C19_RescaledWithinHalf ==
  ~control.responseIsBinary =>
    LET shifted == ShiftedResponse
        half == RHalf
    IN  /\ dataScale.min = RVecMin(shifted) /\ dataScale.max = RVecMax(shifted)
        /\ dataScale.range = RSub(dataScale.max, dataScale.min)
        /\ \A i \in 1..numObservations :
             /\ dataScale.range # R(0) =>
                  /\ yRescaled[i] = RSub(RDiv(RSub(shifted[i], dataScale.min), dataScale.range),
                                         half)
                  /\ shifted[i] = dataScale.min => yRescaled[i] = RNeg(half)
                  /\ shifted[i] = dataScale.max => yRescaled[i] = half
             /\ IsFinite(yRescaled[i])
             /\ RLeq(RNeg(half), yRescaled[i]) /\ RLeq(yRescaled[i], half)

\* the cut points setCutPointsFromQuantiles computes for column col of X
\* when the column has none yet
QuantileCuts(col) ==
  setCutPointsFromQuantiles(ColumnOf(X, numObservations, col), At(maxNumCuts, col),
                            NO_CUTS_YET, NULL)

NumDistinct(col) ==
  Cardinality({ ColumnOf(X, numObservations, col)[i] : i \in 1..numObservations })

\* C18: in quantile mode a column with more than maxNumCuts + 1 distinct
\* values gets numCuts = maxNumCuts cut points that are pairwise distinct
\* and strictly increasing; they are the cut points of a fit just created.
C18_QuantileCutsStrictlyIncreasing ==
  control.useQuantiles =>
    \A col \in 0..(numPredictors - 1) :
      NumDistinct(col) > At(maxNumCuts, col) + 1 =>
        LET r == QuantileCuts(col)
        IN  /\ r.numCutsPerVariable = At(maxNumCuts, col)
            /\ \A i, j \in 1..r.numCutsPerVariable :
                 i < j => RLess(r.cutPoints[i], r.cutPoints[j])
            /\ lastOp = "create" =>
                 /\ At(numCutsPerVariable, col) = r.numCutsPerVariable
                 /\ At(cutPoints, col) = r.cutPoints

\* C20: right after restoreScratch the leaf's scratch reads what it read at
\* the time of the store: mu and numEffectiveObservations for the
\* mean-normal model; the coefficients, the factor, the leaf Xt and the leaf
\* y, all in live buffers, for the linear-regression model; whatever
\* updates were applied to the scratch in between.
C20_RestoreReturnsStoredScratch ==
  lastOp = "restoreScratch" =>
    IF leaf.kind = "MeanNormal"
    THEN leaf.scratch = storedScratch.contents
    ELSE /\ ScratchContents(memory, leaf.scratch) = storedScratch.contents
         /\ memory.misuse = "none"
         /\ \A a \in {leaf.scratch.coefficients, leaf.scratch.posteriorCovarianceRightFactor,
                      leaf.scratch.Xt, leaf.scratch.y} : a # 0 => memory.cells[a].live

\* a leaf below the top is restored to a scratch that read 1 everywhere at
\* the store, after an update in between gave one of its buffers, deleted
\* by the restore, the contents 0
C20_Witness ==
  /\ lastOp = "restoreScratch"
  /\ leaf.kind = "LinearRegressionNormal" /\ ~leaf.isTop
  /\ storedScratch.contents = [posteriorCovarianceRightFactor |-> 1, coefficients |-> 1,
                               y |-> 1, Xt |-> 1]
  /\ \E a \in 3..MaxBuffers : ~memory.cells[a].live /\ memory.cells[a].data = 0

\* C21: in a fit dbarts_create made, the weights are the ones supplied
\* whether or not an offset is supplied, and the offset is null when none
\* is supplied.
C21_OffsetBranchWritesOnlyOffset ==
  [][\A a \in CreateArguments :
       (DbartsCreate(a) /\ returned' = "externalptr") =>
         \A q \in DOMAIN externalPtrAddr' \ DOMAIN externalPtrAddr :
           /\ externalPtrAddr'[q].data.weights = a.data.weights
           /\ a.data.offset = 0 => externalPtrAddr'[q].data.offset = 0]_vars

\* the sum of the fits of every tree but tree t, for observation i
RECURSIVE SumOverOtherTrees(_, _, _, _)
SumOverOtherTrees(fits, i, t, upTo) ==
  IF upTo = 0 THEN R(0)
  ELSE IF upTo = t THEN SumOverOtherTrees(fits, i, t, upTo - 1)
  ELSE RAdd(SumOverOtherTrees(fits, i, t, upTo - 1), fits[upTo][i])

\* C22: the update of tree t computes treeY = yRescaled - (totalFits -
\* treeFits[., t]) from the fits as they stand when its turn comes, which
\* makes treeY the response less the fits of the other trees, those before
\* t already updated in this iteration; it then replaces the tree, sets
\* totalFits to totalFits - old treeFits[., t] + new fits and treeFits[., t]
\* to the new fits, which are the fits extracted from the tree's current
\* leaves and partition; no other tree and no other column changes.
C22_TreeUpdateOrder ==
  [][TreeUpdate =>
       LET t == treeNum + 1
       IN  /\ \A i \in 1..numObservations :
                /\ treeY'[i] = RSub(yRescaled[i], RSub(totalFits[i], treeFits[t][i]))
                /\ treeY'[i] = RSub(yRescaled[i], SumOverOtherTrees(treeFits, i, t, NumTrees))
                /\ totalFits'[i] = RAdd(RSub(totalFits[i], treeFits[t][i]), treeFits'[t][i])
           /\ \A s \in 1..(t - 1) : treeFits[s] = getFits(trees'[s])
           /\ treeFits'[t] = getFits(trees'[t])
           /\ \A s \in (1..NumTrees) \ {t} : treeFits'[s] = treeFits[s] /\ trees'[s] = trees[s]
           /\ iterationLog' = Append(iterationLog, <<"tree", treeNum>>)]_vars

\* the last tree has just been updated, in an iteration after the first,
\* against a residual that differs from the response, and it splits with
\* two different leaf parameters
C22_Witness ==
  /\ pc = "sweep" /\ treeNum = NumTrees /\ numIterations >= 1
  /\ treeY # yRescaled
  /\ trees[NumTrees].hasRule /\ treeFits[NumTrees][1] # treeFits[NumTrees][2]
  /\ trees[1].hasRule

\* the distinct values of column col
DistinctValues(col) == { ColumnOf(X, numObservations, col)[i] : i \in 1..numObservations }

\* C23: in quantile mode a column with u <= maxNumCuts + 1 distinct values
\* gets numCuts = u - 1 <= maxNumCuts cut points, the i-th the midpoint of
\* the i-th and (i+1)-th smallest distinct values; a constant column gets
\* none; they are the cut points of a fit just created.
C23_EveryGapMidpoint ==
  control.useQuantiles =>
    \A col \in 0..(numPredictors - 1) :
      LET U == DistinctValues(col)
          u == Cardinality(U)
      IN  u <= At(maxNumCuts, col) + 1 =>
            LET r == QuantileCuts(col)
            IN  /\ ~r.error
                /\ r.numCutsPerVariable = u - 1
                /\ r.numCutsPerVariable <= At(maxNumCuts, col)
                /\ DOMAIN r.cutPoints = 1..(u - 1)
                /\ \A i \in 1..(u - 1) :
                     \E a, b \in U :
                       /\ a < b /\ ~\E c \in U : a < c /\ c < b
                       /\ Cardinality({ c \in U : c < a }) = i - 1
                       /\ r.cutPoints[i] = RMul(RHalf, R(a + b))
                /\ lastOp = "create" =>
                     /\ At(numCutsPerVariable, col) = u - 1
                     /\ At(cutPoints, col) = r.cutPoints

\* a fit just created in quantile mode on a column of four distinct values
\* with maxNumCuts 3 and a constant column
C23_Witness ==
  /\ lastOp = "create" /\ control.useQuantiles
  /\ Cardinality(DistinctValues(0)) = 4 /\ At(maxNumCuts, 0) = 3
  /\ Cardinality(DistinctValues(1)) = 1
  /\ At(numCutsPerVariable, 0) = 3 /\ At(numCutsPerVariable, 1) = 0
  /\ At(cutPoints, 0) = <<R(1), R(3), R(5)>> /\ At(cutPoints, 1) = << >>

\* everything of the fit but the test offset
AllButTestOffset ==
  <<controlVars, y, offset, X, X_test, numTestObservations, scratchVars, stateVars, modelVars>>

LeafFor(tree, x) ==
  IF ~tree.hasRule THEN 1
  ELSE IF RLeq(R(x), cutPoints[tree.variableIndex + 1][tree.splitIndex + 1]) THEN 1
  ELSE 2

\* test row i's value in column col of X_test, training row i's in X
TestValue(i, col) == X_test[col * numTestObservations + i]
TrainingValue(i, col) == X[col * numObservations + i]

\* C25: when a tree's fits are extracted with test fits asked for, every
\* test observation receives the parameter of the leaf the tree's rule
\* routes it to, the value that leaf's training observations receive; on a
\* thinning iteration, where no test buffer is passed, or with no test
\* observations, no map is built and no test fit is written.
C25_TestFitsFromRoutedLeaf ==
  [][TreeUpdate =>
       LET t == treeNum + 1
           col == trees'[t].variableIndex
       IN  /\ (~isThinningIteration /\ numTestObservations > 0) =>
                \A i \in 1..numTestObservations :
                  LET leafIndex == LeafFor(trees'[t], TestValue(i, col))
                  IN  /\ totalTestFits'[i] = RAdd(totalTestFits[i], trees'[t].mu[leafIndex])
                      /\ \A j \in 1..numObservations :
                           LeafFor(trees'[t], TrainingValue(j, col)) = leafIndex =>
                             RAdd(totalTestFits[i], treeFits'[t][j]) = totalTestFits'[i]
           /\ (isThinningIteration \/ numTestObservations = 0) =>
                /\ UNCHANGED totalTestFits
                /\ LET current == getCurrentFits(trees'[t], Xt_test, cutPoints,
                                                 numTestObservations, numPredictors, FALSE)
                   IN  ~current.mapBuilt /\ current.testFits = NULL
           /\ LET current == getCurrentFits(trees'[t], Xt_test, cutPoints, 0,
                                            numPredictors, TRUE)
              IN  ~current.mapBuilt /\ current.testFits = << >>]_vars

\* the first tree of a non-thinning iteration has just been updated: it
\* splits, its leaves drew different parameters, and the test row went to
\* the second leaf and received the second leaf's parameter
C25_Witness ==
  /\ pc = "sweep" /\ treeNum = 1 /\ ~isThinningIteration
  /\ numTestObservations = 1 /\ X_test = <<2, 0>>
  /\ trees[1].hasRule /\ trees[1].mu[1] # trees[1].mu[2]
  /\ totalTestFits = <<trees[1].mu[2]>>
  /\ treeFits[1] = <<trees[1].mu[1], trees[1].mu[2]>>

\* the exact weighted mean of treeY over a node's observations and the exact
\* sum of its weights (the count without weights)
RECURSIVE ExactWeightedSum(_, _)
ExactWeightedSum(indices, upTo) ==
  IF upTo = 0 THEN R(0)
  ELSE RAdd(ExactWeightedSum(indices, upTo - 1),
            IF family.weights = NULL THEN family.treeY[indices[upTo]]
            ELSE RMul(family.treeY[indices[upTo]], R(family.weights[indices[upTo]])))
RECURSIVE ExactSumOfWeights(_, _)
ExactSumOfWeights(indices, upTo) ==
  IF upTo = 0 THEN 0
  ELSE ExactSumOfWeights(indices, upTo - 1)
         + (IF family.weights = NULL THEN 1 ELSE family.weights[indices[upTo]])
ExactMean(node) ==
  RDiv(ExactWeightedSum(Indices(node), Len(Indices(node))),
       R(ExactSumOfWeights(Indices(node), Len(Indices(node)))))

\* a and b differ by at most units / 2^MantissaBits times the largest
\* magnitude among the parent's residuals
WithinRounding(a, b, units) ==
  LET diff == RSub(a, b)
      magnitude == [n |-> Abs(diff.n), d |-> diff.d]
  IN  \E i \in 1..3 :
        RLeq(magnitude,
             RMul(Norm(units, Pow2(MantissaBits)),
                  [n |-> Abs(family.treeY[i].n), d |-> family.treeY[i].d]))

C28_LoopEndsWithinTotal ==
  /\ lastOp = "runSampler" => numIterations <= totalNumIterations
  /\ lastOp = "runSampler" /\ pc = "loop" => k = numIterations

\* C29: runSampler returns Results iff numSamples >= 1; with numSamples = 0
\* it runs numBurnIn * treeThinningRate iterations on a one-column Results,
\* frees it and returns NULL; every runSampler call made by dbarts_run has
\* numSamples >= 1, and dbarts_run reads through no NULL Results.
C29_ResultsIffSamples ==
  /\ lastOp = "runSampler" /\ pc = "idle" =>
       /\ returned = "Results" <=> numSamples >= 1
       /\ returned = "NULL" <=> numSamples = 0
       /\ numSamples = 0 =>
            results = NoResults /\ numIterations = numBurnIn * control.treeThinningRate
       /\ numSamples >= 1 => results.numSamples = numSamples
  /\ lastOp = "runSampler" /\ pc # "idle" /\ numSamples = 0 => results.numSamples = 1
  /\ lastOp = "runSampler" /\ lastPointer # 0 => numSamples >= 1
  /\ returned # "null dereference"

\* a runSampler call with numSamples = 0 on a fit made through the
\* interface has run its burn-in iteration, has left the fit another sigma
\* than it found, and has returned NULL
C29_Witness ==
  /\ lastOp = "runSampler" /\ pc = "idle" /\ returned = "NULL"
  /\ numSamples = 0 /\ numIterations = MaxBurnIn
  /\ sigma # InitialSigma(control, dataScale.range)
  /\ activeFits # {}

\* C30: under every order of createScratch, updateScratchWithMemberships,
\* prepareScratch, storeScratch, restoreScratch and destroyScratch on a
\* linear-regression node, no buffer is freed twice, the model-wide Xt and
\* the caller's y are never freed, and after restoreScratch no pointer of
\* the node's scratch addresses a freed buffer.
C30_NoDoubleFreeNoDangling ==
  /\ memory.misuse = "none"
  /\ lastOp = "restoreScratch" => Dangling(memory, leaf.scratch) = {}

====
